---- MODULE Spec2Model ----
(***************************************************************************)
(* near-sdk-contract-tools: the NEP-141 fungible ledger                    *)
(* (src/src/standard/nep141/mod.rs), the NEP-171 non-fungible transfer,    *)
(* transfer-call and resolver entry points generated by the derive macro   *)
(* (src/macros/src/standard/nep171.rs), and the transfer-and-settle        *)
(* protocol that both follow.                                               *)
(*                                                                         *)
(* Every entry point of a contract runs to completion inside one receipt,  *)
(* so every action below is one whole call.  A call that panics is rolled  *)
(* back by the host: it leaves storage as it was.  A controller method     *)
(* that returns Err does NOT roll anything back: storage stays as the      *)
(* method left it and the caller decides what to do with the error.        *)
(***************************************************************************)
EXTENDS Integers, Sequences, FiniteSets, Bags, TLC

(***************************************************************************)
(* Bounds                                                                  *)
(***************************************************************************)
\* u128::MAX, scaled down so that overflow is reachable.
U128Max == 100

Accounts == {"alice", "bob", "carol"}

\* A partial amount, half of the scaled maximum.
Half == 50

\* Amounts passed to the ledger operations: zero, a partial amount, the maximum.
Amounts == {0, Half, U128Max}

\* Values a before-hook may hand to its after-hook (opaque carried state).
HookStates == {"s1", "s2"}

\* A hook has no error to return: it fails by panicking, which aborts the
\* receipt and discards its writes and logs.  HookPanics stands for a before
\* hook that does so.
HookPanics == "panic"

\* Slot::read() of a slot that was never written (Option::None).
None == -1

\* Token ids of the non-fungible ledger.
Tokens == {"t1"}

\* Transfer-calls that may be awaiting their resolver at the same time.
MaxInFlight == 1

\* The account the contract is deployed to (env::current_account_id()).
CurrentAccount == "contract"

\* token_owner() of a token id that has no entry (Option::None).
NoOwner == "nobody"

VARIABLES
    slot_account,       \* StorageKey::Account(id) -> u128 slot, None when absent
    slot_total_supply,  \* StorageKey::TotalSupply slot, None when absent
    last,               \* the call executed by the last step, and its result
    trace,              \* hooks invoked and events emitted by that call, in order
    token_owners,       \* ownership entries <<token id, owner>> of the NFT ledger
    promises,           \* nft_transfer_call promise chains not yet resolved
    nft_last,           \* the NFT entry point executed by the last step
    settled,            \* the nft_transfer_call last resolved, when recorded
    ft_call,            \* the ft_transfer_call being settled, and its history
    slot_members_of,    \* StorageKey::Role(r) -> UnorderedSet slot, {} when absent
    rbac_last,          \* the Rbac call executed by the last step, and its result
    slot_token_metadata \* StorageKey::TokenMetadata(id) slot, NoMetadata when absent

ft_vars == <<slot_account, slot_total_supply, last, ft_call>>

nft_vars == <<token_owners, promises, nft_last, settled>>

rbac_vars == <<slot_members_of, rbac_last>>

vars == <<slot_account, slot_total_supply, last, trace,
          token_owners, promises, nft_last, settled, ft_call,
          slot_members_of, rbac_last, slot_token_metadata>>

(***************************************************************************)
(* u128 arithmetic                                                         *)
(***************************************************************************)
checked_add(x, y) == IF x + y > U128Max THEN None ELSE x + y

checked_sub(x, y) == IF x < y THEN None ELSE x - y

(***************************************************************************)
(* The fungible ledger.  A ledger value L is the pair of storage regions   *)
(* the controller reads and writes.                                        *)
(***************************************************************************)
Ledger == [account |-> slot_account, total |-> slot_total_supply]

balance_of(L, account_id) ==
    IF L.account[account_id] = None THEN 0 ELSE L.account[account_id]

total_supply(L) == IF L.total = None THEN 0 ELSE L.total

Outcome(L, result) == [ledger |-> L, result |-> result]

\* Faulty variant: a zero amount goes through the balance and supply writes too.
withdraw_unchecked_unguarded(L, account_id, amount) ==
    LET balance == balance_of(L, account_id)
        new_balance == checked_sub(balance, amount)
    IN  IF new_balance = None
        THEN Outcome(L, "BalanceUnderflow")
        ELSE LET L1 == [L EXCEPT !.account[account_id] = new_balance]
                 supply == total_supply(L1)
                 new_supply == checked_sub(supply, amount)
             IN  IF new_supply = None
                 THEN Outcome(L1, "TotalSupplyUnderflow")
                 ELSE Outcome([L1 EXCEPT !.total = new_supply], "Ok")

withdraw_unchecked(L, account_id, amount) ==
    IF amount # 0
    THEN LET balance == balance_of(L, account_id)
             new_balance == checked_sub(balance, amount)
         IN  IF new_balance = None
             THEN Outcome(L, "BalanceUnderflow")
             ELSE LET L1 == [L EXCEPT !.account[account_id] = new_balance]
                      supply == total_supply(L1)
                      new_supply == checked_sub(supply, amount)
                  IN  IF new_supply = None
                      THEN Outcome(L1, "TotalSupplyUnderflow")
                      ELSE Outcome([L1 EXCEPT !.total = new_supply], "Ok")
    ELSE Outcome(L, "Ok")

\* Faulty variant: the balance is added with wrapping arithmetic and only the total
\* supply is checked.
deposit_unchecked_wrapping(L, account_id, amount) ==
    IF amount # 0
    THEN LET balance == balance_of(L, account_id)
             L1 == [L EXCEPT !.account[account_id] =
                                 (balance + amount) % (U128Max + 1)]
             new_supply == checked_add(total_supply(L1), amount)
         IN  IF new_supply = None
             THEN Outcome(L1, "TotalSupplyOverflow")
             ELSE Outcome([L1 EXCEPT !.total = new_supply], "Ok")
    ELSE Outcome(L, "Ok")

deposit_unchecked(L, account_id, amount) ==
    IF amount # 0
    THEN LET balance == balance_of(L, account_id)
             new_balance == checked_add(balance, amount)
         IN  IF new_balance = None
             THEN Outcome(L, "BalanceOverflow")
             ELSE LET L1 == [L EXCEPT !.account[account_id] = new_balance]
                      supply == total_supply(L1)
                      new_supply == checked_add(supply, amount)
                  IN  IF new_supply = None
                      THEN Outcome(L1, "TotalSupplyOverflow")
                      ELSE Outcome([L1 EXCEPT !.total = new_supply], "Ok")
    ELSE Outcome(L, "Ok")

\* Faulty variant: the sender's entry is written before the receiver's balance is
\* checked for overflow.
transfer_unchecked_eager(L, sender_account_id, receiver_account_id, amount) ==
    LET new_sender_balance ==
            checked_sub(balance_of(L, sender_account_id), amount)
    IN  IF new_sender_balance = None
        THEN Outcome(L, "BalanceUnderflow")
        ELSE LET L1 == [L EXCEPT !.account[sender_account_id] =
                                     new_sender_balance]
                 new_receiver_balance ==
                     checked_add(balance_of(L, receiver_account_id), amount)
             IN  IF new_receiver_balance = None
                 THEN Outcome(L1, "BalanceOverflow")
                 ELSE Outcome([L1 EXCEPT !.account[receiver_account_id] =
                                             new_receiver_balance], "Ok")

\* Faulty variant: the sender's balance is not checked, it is floored at 0.
transfer_unchecked_saturating(L, sender_account_id, receiver_account_id, amount) ==
    LET sender_balance == balance_of(L, sender_account_id)
        new_sender_balance == IF sender_balance >= amount
                              THEN sender_balance - amount ELSE 0
        new_receiver_balance ==
            checked_add(balance_of(L, receiver_account_id), amount)
    IN  IF new_receiver_balance = None THEN Outcome(L, "BalanceOverflow")
        ELSE LET L1 == [L EXCEPT !.account[sender_account_id] =
                                      new_sender_balance]
                 L2 == [L1 EXCEPT !.account[receiver_account_id] =
                                      new_receiver_balance]
             IN  Outcome(L2, "Ok")

transfer_unchecked(L, sender_account_id, receiver_account_id, amount) ==
    LET sender_balance == balance_of(L, sender_account_id)
        new_sender_balance == checked_sub(sender_balance, amount)
    IN  IF new_sender_balance = None
        THEN Outcome(L, "BalanceUnderflow")
        ELSE LET receiver_balance == balance_of(L, receiver_account_id)
                 new_receiver_balance == checked_add(receiver_balance, amount)
             IN  IF new_receiver_balance = None
                 THEN Outcome(L, "BalanceOverflow")
                 ELSE \* two writes, the sender's first, the receiver's second
                      LET L1 == [L EXCEPT !.account[sender_account_id] =
                                                new_sender_balance]
                          L2 == [L1 EXCEPT !.account[receiver_account_id] =
                                                new_receiver_balance]
                      IN  Outcome(L2, "Ok")

(***************************************************************************)
(* Operations with hooks and events.  hook_state is the value the before   *)
(* hook returns; the result carries the ordered list of hook invocations   *)
(* and events of the call.                                                 *)
(***************************************************************************)
Nep141Transfer(sender_id, receiver_id, amount, msg, revert) ==
    [sender_id |-> sender_id, receiver_id |-> receiver_id, amount |-> amount,
     msg |-> msg, revert |-> revert]

Traced(o, tr) == [ledger |-> o.ledger, result |-> o.result, trace |-> tr]

\* Faulty variant: the after hook is given a value of the executor's own.
transfer_own_state(L, t, hook_state) ==
    LET o == transfer_unchecked(L, t.sender_id, t.receiver_id, t.amount)
    IN  IF o.result # "Ok"
        THEN Traced(o, << <<"before_transfer", hook_state>> >>)
        ELSE Traced(o, << <<"before_transfer", hook_state>>,
                          <<"FtTransfer", t.sender_id, t.receiver_id, t.amount>>,
                          <<"after_transfer", "s1">> >>)

\* The receipt after a hook panicked: nothing written, nothing logged.
Aborted(L) == Traced(Outcome(L, "PanicHook"), << >>)

\* Faulty variant: the event is emitted before the balances are moved.
transfer_event_first(L, t, hook_state) ==
    LET o == transfer_unchecked(L, t.sender_id, t.receiver_id, t.amount)
    IN  IF o.result # "Ok"
        THEN Traced(o, << <<"before_transfer", hook_state>>,
                          <<"FtTransfer", t.sender_id, t.receiver_id, t.amount>> >>)
        ELSE Traced(o, << <<"before_transfer", hook_state>>,
                          <<"FtTransfer", t.sender_id, t.receiver_id, t.amount>>,
                          <<"after_transfer", hook_state>> >>)

\* Faulty variant: a panic of the before hook is caught and the transfer goes on.
transfer_unvetoed(L, t, hook_state) ==
    LET o == transfer_unchecked(L, t.sender_id, t.receiver_id, t.amount)
    IN  IF o.result # "Ok"
        THEN Traced(o, << <<"before_transfer", hook_state>> >>)
        ELSE Traced(o, << <<"before_transfer", hook_state>>,
                          <<"FtTransfer", t.sender_id, t.receiver_id, t.amount>>,
                          <<"after_transfer", hook_state>> >>)

transfer(L, t, hook_state) ==
    IF hook_state = HookPanics THEN Aborted(L)
    ELSE LET o == transfer_unchecked(L, t.sender_id, t.receiver_id, t.amount)
         IN  IF o.result # "Ok"
             THEN Traced(o, << <<"before_transfer", hook_state>> >>)
             ELSE Traced(o, << <<"before_transfer", hook_state>>,
                               <<"FtTransfer", t.sender_id, t.receiver_id, t.amount>>,
                               <<"after_transfer", hook_state>> >>)

mint(L, account_id, amount, hook_state) ==
    IF hook_state = HookPanics THEN Aborted(L)
    ELSE LET o == deposit_unchecked(L, account_id, amount)
         IN  IF o.result # "Ok"
             THEN Traced(o, << <<"before_mint", hook_state>> >>)
             ELSE Traced(o, << <<"before_mint", hook_state>>,
                               <<"after_mint", hook_state>>,
                               <<"FtMint", account_id, amount>> >>)

\* Faulty variant: a burn that emits no event.
burn_unlogged(L, account_id, amount, hook_state) ==
    IF hook_state = HookPanics THEN Aborted(L)
    ELSE LET o == withdraw_unchecked(L, account_id, amount)
         IN  IF o.result # "Ok"
             THEN Traced(o, << <<"before_burn", hook_state>> >>)
             ELSE Traced(o, << <<"before_burn", hook_state>>,
                               <<"after_burn", hook_state>> >>)

burn(L, account_id, amount, hook_state) ==
    IF hook_state = HookPanics THEN Aborted(L)
    ELSE LET o == withdraw_unchecked(L, account_id, amount)
         IN  IF o.result # "Ok"
             THEN Traced(o, << <<"before_burn", hook_state>> >>)
             ELSE Traced(o, << <<"before_burn", hook_state>>,
                               <<"after_burn", hook_state>>,
                               <<"FtBurn", account_id, amount>> >>)

(***************************************************************************)
(* The fungible ledger as a state machine: the controller methods called   *)
(* in any order with any arguments.                                        *)
(***************************************************************************)
Call(op, sender, receiver, amount, result) ==
    [op |-> op, sender |-> sender, receiver |-> receiver, amount |-> amount,
     result |-> result]

NoCall == Call("none", "none", "none", 0, "Ok")

Commit(L) ==
    /\ slot_account' = L.account
    /\ slot_total_supply' = L.total

NftCall(op, sender, receiver, token, result) ==
    [op |-> op, sender |-> sender, receiver |-> receiver, token |-> token,
     result |-> result]

NoNftCall == NftCall("none", "none", "none", "none", "Ok")

\* A promise chain of nft_transfer_call: the receiver call and, after it, the
\* resolver callback with the arguments it was scheduled with.  stage is
\* "receiver" until the receiver call has completed and "resolver" after.
\* What the receiver returned is seen by nobody before the resolver reads
\* env::promise_result(0); it is drawn there.
Promise(previous_owner_id, receiver_id, token_id, stage) ==
    [previous_owner_id |-> previous_owner_id, receiver_id |-> receiver_id,
     token_id |-> token_id, stage |-> stage]

NoPromise == Promise("none", "none", "none", "none")

\* An ft_transfer_call on its way: its arguments, the stage of its promise
\* chain, the receiver's result once there is one, and, for reference, the
\* balances it started from and the FtTransfer events emitted since.
FtCall(stage, sender_id, receiver_id, amount, msg, result, before, events) ==
    [stage |-> stage, sender_id |-> sender_id, receiver_id |-> receiver_id,
     amount |-> amount, msg |-> msg, result |-> result, before |-> before,
     transfer_events |-> events]

Balances(sender, receiver, total) ==
    [sender |-> sender, receiver |-> receiver, total |-> total]

NotReady == [tag |-> "NotReady", value |-> None]

NoFtCall == FtCall("none", "none", "none", 0, "", NotReady,
                   Balances(0, 0, 0), 0)

\* The roles of a contract and the accounts that call its Rbac methods.
Roles == {"A", "B", "C"}

RbacAccounts == {"alice", "bob"}

\* A guard of rbac_guard!: a role, or all / any / none of a list of guards.
Guard(kind, role, guards) == [kind |-> kind, role |-> role, guards |-> guards]

NoGuard == Guard("none", "none", << >>)

\* What is observed of a call of an Rbac method.
RbacCall(op, account_id, role, guard, result) ==
    [op |-> op, account_id |-> account_id, role |-> role, guard |-> guard,
     result |-> result]

NoRbacCall == RbacCall("none", "none", "none", NoGuard, "Ok")

\* Token metadata values, and the absent one (Option::None).
TokenMetadata == {"m1", "m2"}

NoMetadata == "absent"

Init ==
    /\ slot_token_metadata = [t \in Tokens |-> NoMetadata]
    /\ slot_members_of = [r \in Roles |-> {}]
    /\ rbac_last = NoRbacCall
    /\ ft_call = NoFtCall
    /\ slot_account = [a \in Accounts |-> None]
    /\ slot_total_supply = None
    /\ last = NoCall
    /\ trace = << >>
    /\ token_owners = {}
    /\ promises = EmptyBag
    /\ nft_last = NoNftCall
    /\ settled = NoPromise

Mint ==
    \E a \in Accounts, n \in Amounts, h \in HookStates :
        LET o == mint(Ledger, a, n, h)
        IN  /\ Commit(o.ledger)
            /\ UNCHANGED <<nft_vars, rbac_vars, slot_token_metadata, ft_call>>
            /\ last' = Call("mint", a, a, n, o.result)
            /\ trace' = o.trace

Burn ==
    \E a \in Accounts, n \in Amounts, h \in HookStates :
        LET o == burn(Ledger, a, n, h)
        IN  /\ Commit(o.ledger)
            /\ UNCHANGED <<nft_vars, rbac_vars, slot_token_metadata, ft_call>>
            /\ last' = Call("burn", a, a, n, o.result)
            /\ trace' = o.trace

Transfer ==
    \E s \in Accounts, r \in Accounts, n \in Amounts, h \in HookStates :
        LET o == transfer(Ledger, Nep141Transfer(s, r, n, "none", FALSE), h)
        IN  /\ Commit(o.ledger)
            /\ UNCHANGED <<nft_vars, rbac_vars, slot_token_metadata, ft_call>>
            /\ last' = Call("transfer", s, r, n, o.result)
            /\ trace' = o.trace

Next ==
    \/ Mint
    \/ Burn
    \/ Transfer

Spec == Init /\ [][Next]_vars

\* The same controller methods under a policy whose before hooks may veto.
VetoHooks == {"s1", HookPanics}

MintHooked ==
    \E a \in Accounts, n \in Amounts, h \in VetoHooks :
        LET o == mint(Ledger, a, n, h)
        IN  /\ Commit(o.ledger)
            /\ UNCHANGED <<nft_vars, rbac_vars, slot_token_metadata, ft_call>>
            /\ last' = Call("mint", a, a, n, o.result)
            /\ trace' = o.trace

BurnHooked ==
    \E a \in Accounts, n \in Amounts, h \in VetoHooks :
        LET o == burn(Ledger, a, n, h)
        IN  /\ Commit(o.ledger)
            /\ UNCHANGED <<nft_vars, rbac_vars, slot_token_metadata, ft_call>>
            /\ last' = Call("burn", a, a, n, o.result)
            /\ trace' = o.trace

TransferHooked ==
    \E s \in Accounts, r \in Accounts, n \in Amounts, h \in VetoHooks :
        LET o == transfer(Ledger, Nep141Transfer(s, r, n, "none", FALSE), h)
        IN  /\ Commit(o.ledger)
            /\ UNCHANGED <<nft_vars, rbac_vars, slot_token_metadata, ft_call>>
            /\ last' = Call("transfer", s, r, n, o.result)
            /\ trace' = o.trace

NextVeto ==
    \/ MintHooked
    \/ BurnHooked
    \/ TransferHooked

SpecVeto == Init /\ [][NextVeto]_vars

(***************************************************************************)
(* Properties of the fungible ledger                                       *)
(***************************************************************************)
RECURSIVE SumOfBalances(_, _)
SumOfBalances(L, S) ==
    IF S = {} THEN 0
    ELSE LET a == CHOOSE x \in S : TRUE
         IN  balance_of(L, a) + SumOfBalances(L, S \ {a})

\* The ledger after the step.
LedgerNext == [account |-> slot_account', total |-> slot_total_supply']

LedgerUnchanged ==
    /\ slot_account' = slot_account
    /\ slot_total_supply' = slot_total_supply

\* C1: at every quiescent point total_supply() equals the sum of
\* balance_of(account) over all accounts.
C1_Conservation == total_supply(Ledger) = SumOfBalances(Ledger, Accounts)

\* C2: a transfer whose sender is its receiver, of an amount the account
\* holds, succeeds, leaves that balance and the total supply as they were,
\* and still runs the before hook, emits the event and runs the after hook.
C2_SelfTransferNoOp ==
    [][ ( /\ last'.op = "transfer"
          /\ last'.sender = last'.receiver
          /\ last'.amount <= balance_of(Ledger, last'.sender) )
        => ( /\ last'.result = "Ok"
             /\ balance_of(LedgerNext, last'.sender) = balance_of(Ledger, last'.sender)
             /\ total_supply(LedgerNext) = total_supply(Ledger)
             /\ Len(trace') = 3
             /\ trace'[1][1] = "before_transfer"
             /\ trace'[2] = <<"FtTransfer", last'.sender, last'.sender, last'.amount>>
             /\ trace'[3][1] = "after_transfer" ) ]_vars

\* C3: a mint or burn (deposit_unchecked / withdraw_unchecked) that returns
\* an error leaves every balance and the total supply as they were, and no
\* balance or total is ever below 0 or above the u128 maximum.
C3_InRange ==
    /\ \A a \in Accounts : balance_of(Ledger, a) \in 0..U128Max
    /\ total_supply(Ledger) \in 0..U128Max

C3_AllOrNothing ==
    /\ [][ (last'.op \in {"mint", "burn"} /\ last'.result # "Ok")
            => LedgerUnchanged ]_vars
    /\ []C3_InRange

\* C4: a transfer_unchecked(A, B, n) that fails leaves every balance and the
\* total supply as they were; one that succeeds between two accounts takes
\* n from A, gives n to B and leaves the others and the total supply alone.
C4_TransferAtomicity ==
    [][ last'.op = "transfer"
        => IF last'.result # "Ok"
           THEN /\ last'.result \in {"BalanceUnderflow", "BalanceOverflow"}
                /\ LedgerUnchanged
           ELSE /\ total_supply(LedgerNext) = total_supply(Ledger)
                /\ last'.sender # last'.receiver =>
                      /\ balance_of(LedgerNext, last'.sender) =
                            balance_of(Ledger, last'.sender) - last'.amount
                      /\ balance_of(LedgerNext, last'.receiver) =
                            balance_of(Ledger, last'.receiver) + last'.amount
                /\ \A a \in Accounts \ {last'.sender, last'.receiver} :
                      balance_of(LedgerNext, a) = balance_of(Ledger, a) ]_vars

C4_Witness ==
    /\ last.op = "transfer"
    /\ last.result = "BalanceOverflow"
    /\ last.sender # last.receiver
    /\ balance_of(Ledger, last.sender) >= last.amount
    /\ last.amount > 0

\* C5: mint(A, n) on a balance b with b + n above the u128 maximum fails
\* with the balance overflow error and the balance of A remains b.
C5_MintOverflow ==
    [][ ( /\ last'.op = "mint"
          /\ balance_of(Ledger, last'.sender) + last'.amount > U128Max )
        => ( /\ last'.result = "BalanceOverflow"
             /\ balance_of(LedgerNext, last'.sender) =
                   balance_of(Ledger, last'.sender) ) ]_vars

C5_Witness ==
    /\ last.op = "mint"
    /\ last.result = "BalanceOverflow"
    /\ last.amount > 0
    /\ balance_of(Ledger, last.sender) = U128Max
    /\ C1_Conservation

(***************************************************************************)
(* The non-fungible ledger (Nep171Controller).  Its entries are kept as a  *)
(* set of <<token id, owner>> pairs; writing the owner slot of a token     *)
(* replaces whatever entry the token had.                                  *)
(***************************************************************************)
OwnersOf(O, token_id) == {e[2] : e \in {x \in O : x[1] = token_id}}

token_owner(O, token_id) ==
    IF OwnersOf(O, token_id) = {} THEN NoOwner
    ELSE CHOOSE o \in OwnersOf(O, token_id) : TRUE

\* Faulty variant: the new entry is added and the old one is left in place.
write_token_owner_keep(O, token_id, owner_id) == O \cup {<<token_id, owner_id>>}

write_token_owner(O, token_id, owner_id) ==
    {e \in O : e[1] # token_id} \cup {<<token_id, owner_id>>}

remove_token_owner(O, token_id) == {e \in O : e[1] # token_id}

NftOutcome(O, result, tr) == [owners |-> O, result |-> result, trace |-> tr]

nep171_check_transfer(O, token_id, current_owner_id, sender_id, receiver_id) ==
    IF token_owner(O, token_id) = NoOwner THEN "TokenNotFound"
    ELSE IF token_owner(O, token_id) # current_owner_id
            \/ sender_id # current_owner_id
         THEN "SenderIsNotOwner"
         ELSE "Ok"

nep171_transfer_unchecked(O, token_id, current_owner_id, sender_id, receiver_id) ==
    NftOutcome(write_token_owner(O, token_id, receiver_id), "Ok",
               << <<"NftTransfer", current_owner_id, receiver_id, token_id>> >>)

nep171_transfer(O, token_id, current_owner_id, sender_id, receiver_id) ==
    LET check == nep171_check_transfer(O, token_id, current_owner_id,
                                       sender_id, receiver_id)
    IN  IF check # "Ok" THEN NftOutcome(O, check, << >>)
        ELSE nep171_transfer_unchecked(O, token_id, current_owner_id,
                                       sender_id, receiver_id)

nep171_mint(O, token_id, receiver_id) ==
    IF token_owner(O, token_id) # NoOwner
    THEN NftOutcome(O, "TokenAlreadyExists", << >>)
    ELSE NftOutcome(write_token_owner(O, token_id, receiver_id), "Ok",
                    << <<"NftMint", receiver_id, token_id>> >>)

nep171_burn(O, token_id, current_owner_id) ==
    IF token_owner(O, token_id) = NoOwner
    THEN NftOutcome(O, "TokenNotFound", << >>)
    ELSE IF token_owner(O, token_id) # current_owner_id
         THEN NftOutcome(O, "SenderIsNotOwner", << >>)
         ELSE NftOutcome(remove_token_owner(O, token_id), "Ok",
                         << <<"NftBurn", current_owner_id, token_id>> >>)

(***************************************************************************)
(* Entry points generated by #[derive(Nep171)].  A panic (require!,        *)
(* assert_one_yocto, unwrap_or_else(panic_str)) aborts the receipt: the    *)
(* ledger is as before and nothing the call logged or scheduled survives.  *)
(***************************************************************************)
\* Gas in units of 10^12 (Tgas).
GAS_FOR_RESOLVE_TRANSFER == 5

GAS_FOR_FT_TRANSFER_CALL == 25 + GAS_FOR_RESOLVE_TRANSFER

GAS_FOR_NFT_TRANSFER_CALL == 25 + GAS_FOR_RESOLVE_TRANSFER

\* What a call arrives with: the attached deposit in yoctoNEAR
\* (assert_one_yocto() wants exactly one), approval_id: Option<u64>, and the
\* prepaid gas.  One well-formed context at the gas minimum, one above it,
\* and one context for each way of being refused.
Context(deposit, approval_id, prepaid_gas) ==
    [deposit |-> deposit, approval_id |-> approval_id,
     prepaid_gas |-> prepaid_gas]

Contexts ==
    {Context(1, None, GAS_FOR_NFT_TRANSFER_CALL),
     Context(1, None, GAS_FOR_NFT_TRANSFER_CALL + 1),
     Context(1, None, GAS_FOR_NFT_TRANSFER_CALL - 1),
     Context(0, None, GAS_FOR_NFT_TRANSFER_CALL),
     Context(1, 0, GAS_FOR_NFT_TRANSFER_CALL)}

\* The value the before hook hands to the after hook has no influence on
\* the ownership entries: the calls of the non-fungible contract are made
\* with one value.
NftHookStates == {"s1"}

\* nft_transfer does not look at the prepaid gas.
TransferContexts ==
    {c \in Contexts : c.prepaid_gas = GAS_FOR_NFT_TRANSFER_CALL}

Msgs == {"msg"}

Panic(O, message) == NftOutcome(O, message, << >>)

IsPanic(result) == result \in {"PanicApproval", "PanicOneYocto", "PanicGas",
                               "PanicPrivate", "PanicPromiseResults",
                               "PanicTokenNotFound", "PanicSenderIsNotOwner",
                               "PanicHook"}

PanicOf(error) == IF error = "TokenNotFound" THEN "PanicTokenNotFound"
                  ELSE "PanicSenderIsNotOwner"

\* Faulty variant: the token is reassigned without the controller's ownership check.
nft_transfer_unchecked_call(O, predecessor, deposit, receiver_id, token_id, approval_id, hook_state) ==
    IF approval_id # None THEN Panic(O, "PanicApproval")
    ELSE IF deposit # 1 THEN Panic(O, "PanicOneYocto")
    ELSE LET o == nep171_transfer_unchecked(O, token_id, predecessor,
                                            predecessor, receiver_id)
         IN  NftOutcome(o.owners, "Ok",
                        << <<"before_nft_transfer", hook_state>> >> \o o.trace
                        \o << <<"after_nft_transfer", hook_state>> >>)

nft_transfer(O, predecessor, deposit, receiver_id, token_id, approval_id, hook_state) ==
    IF approval_id # None THEN Panic(O, "PanicApproval")
    ELSE IF deposit # 1 THEN Panic(O, "PanicOneYocto")
    ELSE IF hook_state = HookPanics THEN Panic(O, "PanicHook")
    ELSE LET sender_id == predecessor
             o == nep171_transfer(O, token_id, sender_id, sender_id, receiver_id)
         IN  IF o.result # "Ok" THEN Panic(O, PanicOf(o.result))
             ELSE NftOutcome(o.owners, "Ok",
                             << <<"before_nft_transfer", hook_state>> >>
                             \o o.trace
                             \o << <<"after_nft_transfer", hook_state>> >>)

\* The receiver call and the chained resolver call of nft_transfer_call.
ReceiverCall(receiver_id, gas, sender_id, previous_owner_id, token_id, msg) ==
    <<"nft_on_transfer", receiver_id, gas, sender_id, previous_owner_id,
      token_id, msg>>

ResolverCall(gas, previous_owner_id, receiver_id, token_id) ==
    <<"nft_resolve_transfer", CurrentAccount, gas, previous_owner_id,
      receiver_id, token_id>>

\* Faulty variant: the prepaid gas is not looked at.
nft_transfer_call_any_gas(O, predecessor, deposit, prepaid_gas, receiver_id, token_id, approval_id, msg, hook_state) ==
    IF approval_id # None THEN Panic(O, "PanicApproval")
    ELSE IF deposit # 1 THEN Panic(O, "PanicOneYocto")
    ELSE LET sender_id == predecessor
             o == nep171_transfer(O, token_id, sender_id, sender_id, receiver_id)
         IN  IF o.result # "Ok" THEN Panic(O, PanicOf(o.result))
             ELSE NftOutcome(o.owners, "Ok",
                    << <<"before_nft_transfer", hook_state>> >>
                    \o o.trace
                    \o << <<"after_nft_transfer", hook_state>>,
                          ReceiverCall(receiver_id,
                                       prepaid_gas - GAS_FOR_NFT_TRANSFER_CALL,
                                       sender_id, sender_id, token_id, msg),
                          ResolverCall(GAS_FOR_RESOLVE_TRANSFER, sender_id,
                                       receiver_id, token_id) >>)

\* Faulty variant: the receiver is called and no resolver is chained to it.
nft_transfer_call_unchained(O, predecessor, deposit, prepaid_gas, receiver_id, token_id, approval_id, msg, hook_state) ==
    IF approval_id # None THEN Panic(O, "PanicApproval")
    ELSE IF deposit # 1 THEN Panic(O, "PanicOneYocto")
    ELSE IF ~(prepaid_gas >= GAS_FOR_NFT_TRANSFER_CALL) THEN Panic(O, "PanicGas")
    ELSE LET sender_id == predecessor
             o == nep171_transfer(O, token_id, sender_id, sender_id, receiver_id)
         IN  IF o.result # "Ok" THEN Panic(O, PanicOf(o.result))
             ELSE NftOutcome(o.owners, "Ok",
                    << <<"before_nft_transfer", hook_state>> >>
                    \o o.trace
                    \o << <<"after_nft_transfer", hook_state>>,
                          ReceiverCall(receiver_id,
                                       prepaid_gas - GAS_FOR_NFT_TRANSFER_CALL,
                                       sender_id, sender_id, token_id, msg) >>)

\* Faulty variant: the receiver is called before the token is reassigned.
nft_transfer_call_notify_first(O, predecessor, deposit, prepaid_gas, receiver_id, token_id, approval_id, msg, hook_state) ==
    IF approval_id # None THEN Panic(O, "PanicApproval")
    ELSE IF deposit # 1 THEN Panic(O, "PanicOneYocto")
    ELSE IF ~(prepaid_gas >= GAS_FOR_NFT_TRANSFER_CALL) THEN Panic(O, "PanicGas")
    ELSE LET sender_id == predecessor
             o == nep171_transfer(O, token_id, sender_id, sender_id, receiver_id)
         IN  IF o.result # "Ok" THEN Panic(O, PanicOf(o.result))
             ELSE NftOutcome(o.owners, "Ok",
                    << ReceiverCall(receiver_id,
                                    prepaid_gas - GAS_FOR_NFT_TRANSFER_CALL,
                                    sender_id, sender_id, token_id, msg),
                       <<"before_nft_transfer", hook_state>> >>
                    \o o.trace
                    \o << <<"after_nft_transfer", hook_state>>,
                          ResolverCall(GAS_FOR_RESOLVE_TRANSFER, sender_id,
                                       receiver_id, token_id) >>)

\* Faulty variant: the receiver is named as the previous holder.
nft_transfer_call_receiver_as_holder(O, predecessor, deposit, prepaid_gas, receiver_id, token_id, approval_id, msg, hook_state) ==
    IF approval_id # None THEN Panic(O, "PanicApproval")
    ELSE IF deposit # 1 THEN Panic(O, "PanicOneYocto")
    ELSE IF ~(prepaid_gas >= GAS_FOR_NFT_TRANSFER_CALL) THEN Panic(O, "PanicGas")
    ELSE LET sender_id == predecessor
             o == nep171_transfer(O, token_id, sender_id, sender_id, receiver_id)
         IN  IF o.result # "Ok" THEN Panic(O, PanicOf(o.result))
             ELSE NftOutcome(o.owners, "Ok",
                    << <<"before_nft_transfer", hook_state>> >>
                    \o o.trace
                    \o << <<"after_nft_transfer", hook_state>>,
                          ReceiverCall(receiver_id,
                                       prepaid_gas - GAS_FOR_NFT_TRANSFER_CALL,
                                       sender_id, receiver_id, token_id, msg),
                          ResolverCall(GAS_FOR_RESOLVE_TRANSFER, sender_id,
                                       receiver_id, token_id) >>)

\* Faulty variant: the prepaid gas has to exceed the minimum.
nft_transfer_call_strict_gas(O, predecessor, deposit, prepaid_gas, receiver_id, token_id, approval_id, msg, hook_state) ==
    IF approval_id # None THEN Panic(O, "PanicApproval")
    ELSE IF deposit # 1 THEN Panic(O, "PanicOneYocto")
    ELSE IF ~(prepaid_gas > GAS_FOR_NFT_TRANSFER_CALL) THEN Panic(O, "PanicGas")
    ELSE LET sender_id == predecessor
             o == nep171_transfer(O, token_id, sender_id, sender_id, receiver_id)
         IN  IF o.result # "Ok" THEN Panic(O, PanicOf(o.result))
             ELSE NftOutcome(o.owners, "Ok",
                    << <<"before_nft_transfer", hook_state>> >>
                    \o o.trace
                    \o << <<"after_nft_transfer", hook_state>>,
                          ReceiverCall(receiver_id,
                                       prepaid_gas - GAS_FOR_NFT_TRANSFER_CALL,
                                       sender_id, sender_id, token_id, msg),
                          ResolverCall(GAS_FOR_RESOLVE_TRANSFER, sender_id,
                                       receiver_id, token_id) >>)

\* Faulty variant: the receiver call is given all of the prepaid gas.
nft_transfer_call_full_gas(O, predecessor, deposit, prepaid_gas, receiver_id, token_id, approval_id, msg, hook_state) ==
    IF approval_id # None THEN Panic(O, "PanicApproval")
    ELSE IF deposit # 1 THEN Panic(O, "PanicOneYocto")
    ELSE IF ~(prepaid_gas >= GAS_FOR_NFT_TRANSFER_CALL) THEN Panic(O, "PanicGas")
    ELSE LET sender_id == predecessor
             o == nep171_transfer(O, token_id, sender_id, sender_id, receiver_id)
         IN  IF o.result # "Ok" THEN Panic(O, PanicOf(o.result))
             ELSE NftOutcome(o.owners, "Ok",
                    << <<"before_nft_transfer", hook_state>> >>
                    \o o.trace
                    \o << <<"after_nft_transfer", hook_state>>,
                          ReceiverCall(receiver_id,
                                       prepaid_gas,
                                       sender_id, sender_id, token_id, msg),
                          ResolverCall(GAS_FOR_RESOLVE_TRANSFER, sender_id,
                                       receiver_id, token_id) >>)

nft_transfer_call(O, predecessor, deposit, prepaid_gas, receiver_id, token_id, approval_id, msg, hook_state) ==
    IF approval_id # None THEN Panic(O, "PanicApproval")
    ELSE IF deposit # 1 THEN Panic(O, "PanicOneYocto")
    ELSE IF ~(prepaid_gas >= GAS_FOR_NFT_TRANSFER_CALL) THEN Panic(O, "PanicGas")
    ELSE LET sender_id == predecessor
             o == nep171_transfer(O, token_id, sender_id, sender_id, receiver_id)
         IN  IF o.result # "Ok" THEN Panic(O, PanicOf(o.result))
             ELSE NftOutcome(o.owners, "Ok",
                    << <<"before_nft_transfer", hook_state>> >>
                    \o o.trace
                    \o << <<"after_nft_transfer", hook_state>>,
                          ReceiverCall(receiver_id,
                                       prepaid_gas - GAS_FOR_NFT_TRANSFER_CALL,
                                       sender_id, sender_id, token_id, msg),
                          ResolverCall(GAS_FOR_RESOLVE_TRANSFER, sender_id,
                                       receiver_id, token_id) >>)

\* env::promise_result(0) of the receiver call.
Successful(value) == [tag |-> "Successful", value |-> value]

Failed == [tag |-> "Failed", value |-> ""]

\* Bytes a receiver may return: the two booleans and something else.
Payloads == {"true", "false", "null"}

PromiseResults == {Successful(v) : v \in Payloads} \cup {Failed}

\* serde_json::from_slice::<bool>(&value)
from_slice_bool(value) ==
    IF value = "true" THEN [ok |-> TRUE, value |-> TRUE]
    ELSE IF value = "false" THEN [ok |-> TRUE, value |-> FALSE]
    ELSE [ok |-> FALSE, value |-> FALSE]

unwrap_or(parsed, default) == IF parsed.ok THEN parsed.value ELSE default

\* Faulty variant: a result that does not parse as a boolean counts as 'keep'.
should_revert_lenient(promise_result) ==
    IF promise_result.tag = "Successful"
    THEN unwrap_or(from_slice_bool(promise_result.value), FALSE)
    ELSE TRUE

should_revert(promise_result) ==
    IF promise_result.tag = "Successful"
    THEN unwrap_or(from_slice_bool(promise_result.value), TRUE)
    ELSE TRUE

\* Faulty variant: the reversal is made without looking at the current owner.
nft_resolve_transfer_unvalidated(O, predecessor, promise_results, previous_owner_id, receiver_id, token_id, hook_state) ==
    IF predecessor # CurrentAccount THEN Panic(O, "PanicPrivate")
    ELSE IF Len(promise_results) # 1 THEN Panic(O, "PanicPromiseResults")
    ELSE IF should_revert(promise_results[1])
         THEN LET o == nep171_transfer_unchecked(O, token_id, receiver_id,
                                                 receiver_id, previous_owner_id)
              IN  NftOutcome(o.owners, "false",
                             << <<"before_nft_transfer", hook_state>> >>
                             \o o.trace
                             \o << <<"after_nft_transfer", hook_state>> >>)
         ELSE NftOutcome(O, "true", << >>)

\* Faulty variant: the reverse transfer is made towards the receiver, not towards the
\* previous owner.
nft_resolve_transfer_swapped(O, predecessor, promise_results, previous_owner_id, receiver_id, token_id, hook_state) ==
    IF predecessor # CurrentAccount THEN Panic(O, "PanicPrivate")
    ELSE IF Len(promise_results) # 1 THEN Panic(O, "PanicPromiseResults")
    ELSE IF should_revert(promise_results[1])
            /\ nep171_check_transfer(O, token_id, receiver_id, receiver_id,
                                     previous_owner_id) = "Ok"
         THEN LET o == nep171_transfer_unchecked(O, token_id, receiver_id,
                                                 previous_owner_id, receiver_id)
              IN  NftOutcome(o.owners, "false",
                             << <<"before_nft_transfer", hook_state>> >>
                             \o o.trace
                             \o << <<"after_nft_transfer", hook_state>> >>)
         ELSE NftOutcome(O, "true", << >>)

\* Faulty variant: a reversal that the ownership check refused is reported as made.
nft_resolve_transfer_reports_err(O, predecessor, promise_results, previous_owner_id, receiver_id, token_id, hook_state) ==
    IF predecessor # CurrentAccount THEN Panic(O, "PanicPrivate")
    ELSE IF Len(promise_results) # 1 THEN Panic(O, "PanicPromiseResults")
    ELSE IF should_revert(promise_results[1])
         THEN LET check_result ==
                      nep171_check_transfer(O, token_id, receiver_id,
                                            receiver_id, previous_owner_id)
              IN  IF check_result = "Ok"
                  THEN LET o == nep171_transfer_unchecked(
                                    O, token_id, receiver_id, receiver_id,
                                    previous_owner_id)
                       IN  NftOutcome(o.owners, "false",
                              << <<"before_nft_transfer", hook_state>> >>
                              \o o.trace
                              \o << <<"after_nft_transfer", hook_state>> >>)
                  ELSE NftOutcome(O, "false", << >>)
         ELSE NftOutcome(O, "true", << >>)

\* Faulty variant: the after hook runs before the token is moved back.
nft_resolve_transfer_hooks_first(O, predecessor, promise_results, previous_owner_id, receiver_id, token_id, hook_state) ==
    IF predecessor # CurrentAccount THEN Panic(O, "PanicPrivate")
    ELSE IF Len(promise_results) # 1 THEN Panic(O, "PanicPromiseResults")
    ELSE IF should_revert(promise_results[1])
         THEN LET check_result ==
                      nep171_check_transfer(O, token_id, receiver_id,
                                            receiver_id, previous_owner_id)
              IN  IF check_result = "Ok"
                  THEN LET o == nep171_transfer_unchecked(
                                    O, token_id, receiver_id, receiver_id,
                                    previous_owner_id)
                       IN  NftOutcome(o.owners, "false",
                              << <<"before_nft_transfer", hook_state>>,
                                 <<"after_nft_transfer", hook_state>> >>
                              \o o.trace)
                  ELSE NftOutcome(O, "true", << >>)
         ELSE NftOutcome(O, "true", << >>)

\* Faulty variant: the resolver is not #[private].
nft_resolve_transfer_public(O, predecessor, promise_results, previous_owner_id, receiver_id, token_id, hook_state) ==
    IF Len(promise_results) # 1 THEN Panic(O, "PanicPromiseResults")
    ELSE IF should_revert(promise_results[1])
         THEN LET check_result ==
                      nep171_check_transfer(O, token_id, receiver_id,
                                            receiver_id, previous_owner_id)
              IN  IF check_result = "Ok"
                  THEN LET o == nep171_transfer_unchecked(
                                    O, token_id, receiver_id, receiver_id,
                                    previous_owner_id)
                       IN  NftOutcome(o.owners, "false",
                              << <<"before_nft_transfer", hook_state>> >>
                              \o o.trace
                              \o << <<"after_nft_transfer", hook_state>> >>)
                  ELSE NftOutcome(O, "true", << >>)
         ELSE NftOutcome(O, "true", << >>)

\* Faulty variant: the number of promise results is not checked, and a missing
\* result counts as a failed receiver call.
nft_resolve_transfer_any_results(O, predecessor, promise_results, previous_owner_id, receiver_id, token_id, hook_state) ==
    IF predecessor # CurrentAccount THEN Panic(O, "PanicPrivate")
    ELSE IF promise_results = << >> \/ should_revert(promise_results[1])
         THEN LET check_result ==
                      nep171_check_transfer(O, token_id, receiver_id,
                                            receiver_id, previous_owner_id)
              IN  IF check_result = "Ok"
                  THEN LET o == nep171_transfer_unchecked(
                                    O, token_id, receiver_id, receiver_id,
                                    previous_owner_id)
                       IN  NftOutcome(o.owners, "false",
                              << <<"before_nft_transfer", hook_state>> >>
                              \o o.trace
                              \o << <<"after_nft_transfer", hook_state>> >>)
                  ELSE NftOutcome(O, "true", << >>)
         ELSE NftOutcome(O, "true", << >>)

nft_resolve_transfer(O, predecessor, promise_results, previous_owner_id, receiver_id, token_id, hook_state) ==
    IF predecessor # CurrentAccount THEN Panic(O, "PanicPrivate")
    ELSE IF Len(promise_results) # 1 THEN Panic(O, "PanicPromiseResults")
    ELSE IF should_revert(promise_results[1])
         THEN LET check_result ==
                      nep171_check_transfer(O, token_id, receiver_id,
                                            receiver_id, previous_owner_id)
              IN  IF check_result = "Ok"
                  THEN LET o == nep171_transfer_unchecked(
                                    O, token_id, receiver_id, receiver_id,
                                    previous_owner_id)
                       IN  NftOutcome(o.owners, "false",
                              << <<"before_nft_transfer", hook_state>> >>
                              \o o.trace
                              \o << <<"after_nft_transfer", hook_state>> >>)
                  ELSE NftOutcome(O, "true", << >>)
         ELSE NftOutcome(O, "true", << >>)

nft_token(O, token_id) ==
    IF token_owner(O, token_id) = NoOwner THEN {}
    ELSE {[token_id |-> token_id, owner_id |-> token_owner(O, token_id)]}

(***************************************************************************)
(* The non-fungible contract as a state machine.                           *)
(***************************************************************************)
\* What is observed of an entry point call: its arguments when it returned,
\* only the panic message when it aborted.
Observed(op, sender, receiver, token, result) ==
    IF IsPanic(result) THEN NftCall(op, "none", "none", "none", result)
    ELSE NftCall(op, sender, receiver, token, result)

NftMint ==
    \E t \in Tokens, a \in Accounts :
        LET o == nep171_mint(token_owners, t, a)
        IN  /\ token_owners' = o.owners
            /\ nft_last' = NftCall("mint", a, a, t, o.result)
            /\ trace' = o.trace
            /\ UNCHANGED <<ft_vars, rbac_vars, slot_token_metadata, promises, settled>>

NftBurn ==
    \E t \in Tokens, a \in Accounts :
        LET o == nep171_burn(token_owners, t, a)
        IN  /\ token_owners' = o.owners
            /\ nft_last' = NftCall("burn", a, a, t, o.result)
            /\ trace' = o.trace
            /\ UNCHANGED <<ft_vars, rbac_vars, slot_token_metadata, promises, settled>>

NftTransfer ==
    \E caller \in Accounts, r \in Accounts, t \in Tokens, c \in TransferContexts,
       h \in NftHookStates :
        LET o == nft_transfer(token_owners, caller, c.deposit, r, t,
                              c.approval_id, h)
        IN  /\ token_owners' = o.owners
            /\ nft_last' = Observed("nft_transfer", caller, r, t, o.result)
            /\ trace' = o.trace
            /\ UNCHANGED <<ft_vars, rbac_vars, slot_token_metadata, promises, settled>>

\* The promise chains a call leaves behind: one for each resolver callback
\* it chained, with the arguments the callback was given.
Scheduled(tr) ==
    {Promise(tr[k][4], tr[k][5], tr[k][6], "receiver") :
        k \in {i \in 1..Len(tr) : tr[i][1] = "nft_resolve_transfer"}}

NftTransferCall ==
    /\ BagCardinality(promises) < MaxInFlight
    /\ \E caller \in Accounts, r \in Accounts, t \in Tokens, c \in Contexts,
          m \in Msgs, h \in NftHookStates :
        LET o == nft_transfer_call(token_owners, caller, c.deposit,
                                   c.prepaid_gas, r, t, c.approval_id, m, h)
        IN  /\ token_owners' = o.owners
            /\ nft_last' = Observed("nft_transfer_call", caller, r, t, o.result)
            /\ trace' = o.trace
            /\ promises' = promises (+) SetToBag(Scheduled(o.trace))
            /\ UNCHANGED <<ft_vars, rbac_vars, slot_token_metadata, settled>>

\* The receiver contract runs nft_on_transfer for chain p and returns, or
\* fails.
NftOnTransferOf(p) ==
    /\ BagIn(p, promises)
    /\ p.stage = "receiver"
    /\ promises' = (promises (-) SetToBag({p}))
                   (+) SetToBag({[p EXCEPT !.stage = "resolver"]})
    /\ nft_last' = NftCall("nft_on_transfer", p.previous_owner_id,
                           p.receiver_id, p.token_id, "Ok")
    /\ trace' = << >>
    /\ UNCHANGED <<ft_vars, rbac_vars, slot_token_metadata, token_owners, settled>>

NftOnTransfer == \E p \in BagToSet(promises) : NftOnTransferOf(p)

\* The host runs the chained callback of promise chain p with the receiver's
\* result r.
ResolveStep(p, r, h) ==
    /\ BagIn(p, promises)
    /\ p.stage = "resolver"
    /\ LET o == nft_resolve_transfer(token_owners, CurrentAccount, <<r>>,
                                     p.previous_owner_id, p.receiver_id,
                                     p.token_id, h)
       IN  /\ token_owners' = o.owners
           /\ nft_last' = Observed("nft_resolve_transfer",
                                   p.previous_owner_id, p.receiver_id,
                                   p.token_id, o.result)
           /\ trace' = << <<"promise_result", r>> >> \o o.trace
    /\ promises' = promises (-) SetToBag({p})
    /\ UNCHANGED <<ft_vars, rbac_vars, slot_token_metadata>>

NftResolveTransferOf(p) ==
    \E r \in PromiseResults, h \in NftHookStates :
        /\ ResolveStep(p, r, h)
        /\ UNCHANGED settled

NftResolveTransfer ==
    \E p \in BagToSet(promises) : NftResolveTransferOf(p)

NextNft ==
    \/ NftMint
    \/ NftBurn
    \/ NftTransfer
    \/ NftTransferCall
    \/ NftOnTransfer
    \/ NftResolveTransfer

SpecNft == Init /\ [][NextNft]_vars

\* The host executes every receipt it holds: a receiver call that is due is
\* run, and so is a resolver callback whose receiver call has completed.
Chains(stage) ==
    {Promise(a, b, t, stage) : a \in Accounts, b \in Accounts, t \in Tokens}

SpecNftLive ==
    /\ SpecNft
    /\ \A p \in Chains("receiver") : WF_vars(NftOnTransferOf(p))
    /\ \A p \in Chains("resolver") : WF_vars(NftResolveTransferOf(p))

(***************************************************************************)
(* The same contract when a resolved transfer is inspected once more: the  *)
(* last transfer-call resolved is remembered, and nft_resolve_transfer is  *)
(* entered again for it by the contract account, either by a direct call   *)
(* (no promise result) or by a second delivery of the callback.            *)
(***************************************************************************)
NftResolveTransferRecorded ==
    \E p \in BagToSet(promises), r \in PromiseResults, h \in NftHookStates :
        /\ ResolveStep(p, r, h)
        /\ settled' = [p EXCEPT !.stage = "settled"]

NftResolveAgain ==
    /\ settled # NoPromise
    /\ \E rs \in {<< >>} \cup {<<r>> : r \in PromiseResults},
          h \in NftHookStates :
        LET o == nft_resolve_transfer(token_owners, CurrentAccount, rs,
                                      settled.previous_owner_id,
                                      settled.receiver_id, settled.token_id, h)
        IN  /\ token_owners' = o.owners
            /\ nft_last' = Observed("nft_resolve_transfer_again",
                                    settled.previous_owner_id,
                                    settled.receiver_id, settled.token_id,
                                    o.result)
            /\ trace' = o.trace
            /\ UNCHANGED <<ft_vars, rbac_vars, slot_token_metadata, promises, settled>>

NextNftAgain ==
    \/ NftMint
    \/ NftBurn
    \/ NftTransfer
    \/ NftTransferCall
    \/ NftOnTransfer
    \/ NftResolveTransferRecorded
    \/ NftResolveAgain

SpecNftAgain == Init /\ [][NextNftAgain]_vars

(***************************************************************************)
(* The same contract when nft_resolve_transfer is entered otherwise than   *)
(* as the callback chained by nft_transfer_call: called by another         *)
(* account, or by the contract account with no promise result or with two. *)
(***************************************************************************)
Callers == Accounts \cup {CurrentAccount}

DirectResults == {<< >>, <<Failed>>, <<Successful("true"), Failed>>}

NftResolveDirect ==
    \E predecessor \in Callers, rs \in DirectResults, a \in Accounts,
       r \in Accounts, t \in Tokens, h \in NftHookStates :
        /\ ~(predecessor = CurrentAccount /\ Len(rs) = 1)
        /\ LET o == nft_resolve_transfer(token_owners, predecessor, rs, a, r,
                                         t, h)
           IN  /\ token_owners' = o.owners
               /\ nft_last' = Observed("nft_resolve_transfer", a, r, t,
                                       o.result)
               /\ trace' = o.trace
               /\ UNCHANGED <<ft_vars, rbac_vars, slot_token_metadata, promises, settled>>

NextNftDirect ==
    \/ NftMint
    \/ NftBurn
    \/ NftTransfer
    \/ NftTransferCall
    \/ NftOnTransfer
    \/ NftResolveTransfer
    \/ NftResolveDirect

SpecNftDirect == Init /\ [][NextNftDirect]_vars

(***************************************************************************)
(* Tokens with metadata (Nep177Controller), on top of the ownership        *)
(* ledger.  Md is the metadata storage: the slot of each token id.         *)
(***************************************************************************)
MetaOutcome(O, Md, result, tr) ==
    [owners |-> O, metadata |-> Md, result |-> result, trace |-> tr]

token_metadata(Md, token_id) == Md[token_id]

set_token_metadata_unchecked(O, Md, token_id, metadata) ==
    MetaOutcome(O, [Md EXCEPT ![token_id] = metadata], "Ok",
                << <<"NftMetadataUpdate", token_id>> >>)

\* Faulty variant: the metadata is stored whether the token exists or not.
set_token_metadata_unguarded(O, Md, token_id, metadata) ==
    set_token_metadata_unchecked(O, Md, token_id, metadata)

set_token_metadata(O, Md, token_id, metadata) ==
    IF token_owner(O, token_id) # NoOwner
    THEN set_token_metadata_unchecked(O, Md, token_id, metadata)
    ELSE MetaOutcome(O, Md, "TokenNotFound", << >>)

\* Faulty variant: the metadata is stored before the token is minted.
mint_with_metadata_eager(O, Md, token_id, owner_id, metadata) ==
    LET w == set_token_metadata_unchecked(O, Md, token_id, metadata)
        o == nep171_mint(O, token_id, owner_id)
    IN  MetaOutcome(o.owners, w.metadata, o.result, w.trace \o o.trace)

mint_with_metadata(O, Md, token_id, owner_id, metadata) ==
    LET o == nep171_mint(O, token_id, owner_id)
    IN  IF o.result # "Ok" THEN MetaOutcome(o.owners, Md, o.result, o.trace)
        ELSE LET w == set_token_metadata_unchecked(o.owners, Md, token_id,
                                                   metadata)
             IN  MetaOutcome(w.owners, w.metadata, "Ok", o.trace \o w.trace)

burn_with_metadata(O, Md, token_id, current_owner_id) ==
    LET o == nep171_burn(O, token_id, current_owner_id)
    IN  IF o.result # "Ok" THEN MetaOutcome(o.owners, Md, o.result, o.trace)
        ELSE LET w == set_token_metadata_unchecked(o.owners, Md, token_id,
                                                   NoMetadata)
             IN  MetaOutcome(w.owners, w.metadata, "Ok", o.trace \o w.trace)

\* Token::load: the token when it has an owner and metadata, else nothing.
load(O, Md, token_id) ==
    IF token_owner(O, token_id) = NoOwner THEN {}
    ELSE IF token_metadata(Md, token_id) = NoMetadata THEN {}
    ELSE {[token_id |-> token_id, owner_id |-> token_owner(O, token_id),
           metadata |-> token_metadata(Md, token_id)]}

MetaStep(op, account_id, token_id, o) ==
    /\ token_owners' = o.owners
    /\ slot_token_metadata' = o.metadata
    /\ nft_last' = NftCall(op, account_id, account_id, token_id, o.result)
    /\ trace' = o.trace
    /\ UNCHANGED <<ft_vars, rbac_vars, promises, settled>>

MintWithMetadata ==
    \E t \in Tokens, a \in Accounts, m \in TokenMetadata :
        MetaStep("mint_with_metadata", a, t,
                 mint_with_metadata(token_owners, slot_token_metadata, t, a, m))

BurnWithMetadata ==
    \E t \in Tokens, a \in Accounts :
        MetaStep("burn_with_metadata", a, t,
                 burn_with_metadata(token_owners, slot_token_metadata, t, a))

SetTokenMetadata ==
    \E t \in Tokens, m \in TokenMetadata :
        MetaStep("set_token_metadata", "none", t,
                 set_token_metadata(token_owners, slot_token_metadata, t, m))

NextMeta ==
    \/ MintWithMetadata
    \/ BurnWithMetadata
    \/ SetTokenMetadata
    \/ NftTransfer
    \/ NftTransferCall
    \/ NftOnTransfer
    \/ NftResolveTransfer

SpecMeta == Init /\ [][NextMeta]_vars

(***************************************************************************)
(* Properties of the non-fungible contract                                 *)
(***************************************************************************)
\* C6: every token id is absent or has exactly one owner entry, and
\* nft_token reports that owner and no other.
C6_SingleOwnership ==
    \A t \in Tokens :
        /\ Cardinality(OwnersOf(token_owners, t)) <= 1
        /\ Cardinality(nft_token(token_owners, t)) <= 1
        /\ {tok.owner_id : tok \in nft_token(token_owners, t)}
             = OwnersOf(token_owners, t)
        /\ OwnersOf(token_owners, t) \subseteq Accounts

C6_Witness ==
    /\ nft_last.op = "nft_resolve_transfer"
    /\ nft_last.result = "false"
    /\ nft_last.sender # nft_last.receiver
    /\ OwnersOf(token_owners, nft_last.token) = {nft_last.sender}

\* C7: nft_transfer and nft_transfer_call reassign a token only when it
\* exists and the caller owns it; every other call panics (TokenNotFound,
\* SenderIsNotOwner, or an earlier check) and leaves the ownership entries
\* as they were.
C7_OwnershipCheck ==
    [][ nft_last'.op \in {"nft_transfer", "nft_transfer_call"}
        => IF nft_last'.result = "Ok"
           THEN /\ token_owner(token_owners, nft_last'.token) = nft_last'.sender
                /\ token_owners' = write_token_owner(token_owners,
                                       nft_last'.token, nft_last'.receiver)
           ELSE /\ IsPanic(nft_last'.result)
                /\ token_owners' = token_owners
                /\ nft_last'.result = "PanicTokenNotFound"
                     => \E t \in Tokens : token_owner(token_owners, t) = NoOwner
                /\ nft_last'.result = "PanicSenderIsNotOwner"
                     => \E t \in Tokens : token_owner(token_owners, t) # NoOwner
      ]_vars

C7_Witness ==
    /\ nft_last.op = "nft_transfer"
    /\ nft_last.result = "PanicSenderIsNotOwner"
    /\ \E t \in Tokens : token_owner(token_owners, t) # NoOwner

\* The receiver result the resolver of the last step read.
ResultRead == trace[1][2]

Accepted(r) == r.tag = "Successful" /\ r.value = "false"

\* C8: nft_resolve_transfer treats the transfer as accepted only when the
\* receiver call succeeded and returned the boolean false; a failed call, a
\* result that is no boolean and the boolean true all make it revert: the
\* token goes back when the receiver still owns it.
C8_OutcomeNormalized ==
    [][ nft_last'.op = "nft_resolve_transfer"
        => IF Accepted(ResultRead')
           THEN /\ nft_last'.result = "true"
                /\ token_owners' = token_owners
                /\ Len(trace') = 1
           ELSE token_owner(token_owners, nft_last'.token) = nft_last'.receiver
                => /\ nft_last'.result = "false"
                   /\ token_owner(token_owners', nft_last'.token)
                        = nft_last'.sender
      ]_vars

C8_Witness ==
    /\ nft_last.op = "nft_resolve_transfer"
    /\ ResultRead = Successful("null")
    /\ nft_last.result = "false"
    /\ nft_last.sender # nft_last.receiver
    /\ token_owner(token_owners, nft_last.token) = nft_last.sender

NftTransferEvents(tr) ==
    {i \in 1..Len(tr) : tr[i][1] = "NftTransfer"}

\* C9: when the resolver of a transfer-call of t from A to B runs with a
\* reject outcome and B still owns t, t is owned by A afterwards, the step
\* makes exactly one reassignment, from B to A, and the promise is consumed,
\* so no second reversal can follow.
C9_RejectCompensatedOnce ==
    [][ ( /\ nft_last'.op = "nft_resolve_transfer"
          /\ ~Accepted(ResultRead')
          /\ token_owner(token_owners, nft_last'.token) = nft_last'.receiver )
        => ( /\ token_owner(token_owners', nft_last'.token) = nft_last'.sender
             /\ Cardinality(NftTransferEvents(trace')) = 1
             /\ \A i \in NftTransferEvents(trace') :
                    trace'[i] = <<"NftTransfer", nft_last'.receiver,
                                  nft_last'.sender, nft_last'.token>>
             /\ BagCardinality(promises') = BagCardinality(promises) - 1
             /\ LET p == Promise(nft_last'.sender, nft_last'.receiver,
                                 nft_last'.token, "resolver")
                IN  /\ BagIn(p, promises)
                    /\ CopiesIn(p, promises') = CopiesIn(p, promises) - 1 )
      ]_vars

C9_Witness ==
    /\ nft_last.op = "nft_resolve_transfer"
    /\ ResultRead = Failed
    /\ nft_last.result = "false"
    /\ nft_last.sender # nft_last.receiver
    /\ token_owner(token_owners, nft_last.token) = nft_last.sender
    /\ promises = EmptyBag

\* C11: when the resolver decides to revert and the token is not owned by
\* the receiver any more (or does not exist), the step changes no ownership
\* entry, runs no hook, emits no event and returns true (nothing was
\* returned) without panicking; and no resolver step ever changes the owner
\* of a token that the receiver of the resolved transfer does not own.
C11_ResolverRevalidation ==
    [][ nft_last'.op = "nft_resolve_transfer"
        => /\ ( /\ ~Accepted(ResultRead')
                /\ token_owner(token_owners, nft_last'.token)
                      # nft_last'.receiver )
              => ( /\ token_owners' = token_owners
                   /\ Len(trace') = 1
                   /\ nft_last'.result = "true" )
           /\ token_owners' # token_owners
              => /\ token_owner(token_owners, nft_last'.token)
                      = nft_last'.receiver
                 /\ token_owners' = write_token_owner(token_owners,
                                        nft_last'.token, nft_last'.sender)
      ]_vars

C11_Witness ==
    /\ nft_last.op = "nft_resolve_transfer"
    /\ ResultRead = Successful("true")
    /\ nft_last.result = "true"
    /\ token_owner(token_owners, nft_last.token)
         \notin {NoOwner, nft_last.receiver, nft_last.sender}

\* C12: a second inspection by the resolver of a transfer-call that has been
\* resolved produces TransferAlreadySettled and changes no ownership entry.
C12_SettledResult ==
    [][ nft_last'.op = "nft_resolve_transfer_again"
        => nft_last'.result = "TransferAlreadySettled" ]_vars

C12_SettledNoMutation ==
    [][ nft_last'.op = "nft_resolve_transfer_again"
        => token_owners' = token_owners ]_vars

C12_SettlementIdempotency == C12_SettledResult /\ C12_SettledNoMutation

\* Positions in a call's log of the entries of one kind.
Positions(tr, kind) == {i \in 1..Len(tr) : tr[i][1] = kind}

\* The promise chain of the transfer-call named by a call record.
PromiseOf(call, stage) == Promise(call.sender, call.receiver, call.token, stage)

\* The order of the three steps of a transfer-call.  In the call itself the
\* reassignment comes first, then the one receiver call, then the one
\* resolver call chained to it; the receiver runs only for a chain that was
\* scheduled; the resolver runs only for a chain whose receiver has run.
C15_Ordering ==
    [][ /\ ( nft_last'.op = "nft_transfer_call" /\ nft_last'.result = "Ok" )
           => ( /\ Cardinality(Positions(trace', "NftTransfer")) = 1
                /\ Cardinality(Positions(trace', "nft_on_transfer")) = 1
                /\ Cardinality(Positions(trace', "nft_resolve_transfer")) = 1
                /\ \A i \in Positions(trace', "NftTransfer"),
                      j \in Positions(trace', "nft_on_transfer"),
                      k \in Positions(trace', "nft_resolve_transfer") :
                       i < j /\ j < k
                /\ promises' = promises
                                 (+) SetToBag({PromiseOf(nft_last', "receiver")}) )
        /\ nft_last'.op = "nft_on_transfer"
           => ( /\ BagIn(PromiseOf(nft_last', "receiver"), promises)
                /\ promises' = ( promises
                                  (-) SetToBag({PromiseOf(nft_last', "receiver")}) )
                                 (+) SetToBag({PromiseOf(nft_last', "resolver")})
                /\ token_owners' = token_owners )
        /\ nft_last'.op = "nft_resolve_transfer"
           => BagIn(PromiseOf(nft_last', "resolver"), promises)
      ]_vars

\* The receiver is the recorded owner whenever it is notified.
C15_OwnerWhenNotified ==
    [][ nft_last'.op = "nft_on_transfer"
        => token_owner(token_owners, nft_last'.token) = nft_last'.receiver
      ]_vars

\* The receiver is the recorded owner when the call that schedules its
\* notification returns, and still is when notified right after it.
C15_OwnerWhenScheduled ==
    [][ /\ ( nft_last'.op = "nft_transfer_call" /\ nft_last'.result = "Ok" )
           => token_owner(token_owners', nft_last'.token) = nft_last'.receiver
        /\ ( /\ nft_last.op = "nft_transfer_call" /\ nft_last.result = "Ok"
             /\ nft_last'.op = "nft_on_transfer"
             /\ PromiseOf(nft_last', "receiver") = PromiseOf(nft_last, "receiver") )
           => token_owner(token_owners, nft_last'.token) = nft_last'.receiver
      ]_vars

\* C15 as stated: the reassignment precedes the receiver's notification,
\* which precedes the resolver call, and at the moment the receiver is
\* notified it is recorded as the owner.
C15_OptimisticOrdering == C15_Ordering /\ C15_OwnerWhenNotified

\* C15, with the case it holds in: the same order of steps; the receiver is
\* recorded as the owner from the moment its notification is scheduled,
\* and is so when notified unless another call has moved or burned the
\* token in between.
C15_OptimisticOrderingScheduled == C15_Ordering /\ C15_OwnerWhenScheduled

C15_Witness ==
    /\ nft_last.op = "nft_on_transfer"
    /\ nft_last.sender # nft_last.receiver
    /\ token_owner(token_owners, nft_last.token) = nft_last.receiver
    /\ BagIn(PromiseOf(nft_last, "resolver"), promises)

\* The resolver has just run for the chain.
ResolvedNow(p) ==
    /\ nft_last.op = "nft_resolve_transfer"
    /\ PromiseOf(nft_last, p.stage) = p

\* C16: a transfer-call that passes its checks chains exactly one resolver
\* callback (one that does not chains none); that callback runs, once,
\* after the receiver call has completed, whatever its result, and is given
\* that result; no other step adds or removes a chain, so the resolver is
\* entered once for each transfer-call and never again.
C16_ExactlyOnce ==
    /\ [][  /\ nft_last'.op = "nft_transfer_call"
               => ( IF nft_last'.result = "Ok"
                  THEN /\ Cardinality(Positions(trace', "nft_resolve_transfer")) = 1
                       /\ \A k \in Positions(trace', "nft_resolve_transfer") :
                              trace'[k] = ResolverCall(GAS_FOR_RESOLVE_TRANSFER,
                                                       nft_last'.sender,
                                                       nft_last'.receiver,
                                                       nft_last'.token)
                       /\ promises' = promises
                             (+) SetToBag({PromiseOf(nft_last', "receiver")})
                  ELSE promises' = promises )
            /\ nft_last'.op = "nft_on_transfer"
               => BagCardinality(promises') = BagCardinality(promises)
            /\ nft_last'.op = "nft_resolve_transfer"
               => ( /\ BagIn(PromiseOf(nft_last', "resolver"), promises)
                    /\ promises' = promises
                          (-) SetToBag({PromiseOf(nft_last', "resolver")})
                    /\ ResultRead' \in PromiseResults )
            /\ nft_last'.op \notin {"nft_transfer_call", "nft_on_transfer",
                                    "nft_resolve_transfer"}
               => promises' = promises
          ]_vars
    /\ \A p \in Chains("receiver") :
           BagIn(p, promises) ~> ResolvedNow(p)

C16_Witness ==
    /\ ResolvedNow(Promise("alice", "bob", "t1", "receiver"))
    /\ ResultRead = Failed
    /\ promises = EmptyBag

(***************************************************************************)
(* The fungible transfer-call: ft_transfer_call, the receiver contract of  *)
(* workspaces-tests (fungible_token_receiver.rs) and ft_resolve_transfer.  *)
(* One transfer-call is followed from its start to its settlement.         *)
(***************************************************************************)
FtOutcome(L, result, tr) == [ledger |-> L, result |-> result, trace |-> tr]

FtSuccessful(value) == [tag |-> "Successful", value |-> value]

FtFailed == [tag |-> "Failed", value |-> None]

\* Messages the receiver contract tells apart.
FtMsgs == {"return", "panic", "", "transfer:carol"}

\* msg.strip_prefix("transfer:") parsed as an account id; NoOwner when the
\* prefix is not there.
strip_prefix_transfer(msg) ==
    IF \E a \in Accounts : msg = "transfer:" \o a
    THEN CHOOSE a \in Accounts : msg = "transfer:" \o a
    ELSE NoOwner

\* Faulty variant: the receiver keeps everything whatever the message.
ft_on_transfer_keep(sender_id, amount, msg) ==
    IF msg = "panic" THEN [result |-> FtFailed, ft_transfer |-> NoOwner]
    ELSE [result |-> FtSuccessful(0), ft_transfer |-> NoOwner]

\* What the receiver does with a notification: the result of its promise and
\* the account it first sends the tokens on to (NoOwner: none).
ft_on_transfer(sender_id, amount, msg) ==
    IF msg = "panic" THEN [result |-> FtFailed, ft_transfer |-> NoOwner]
    ELSE IF strip_prefix_transfer(msg) # NoOwner
         THEN [result |-> FtSuccessful(amount),
               ft_transfer |-> strip_prefix_transfer(msg)]
         ELSE [result |-> FtSuccessful(IF msg = "return" THEN amount ELSE 0),
               ft_transfer |-> NoOwner]

\* ft_transfer: a plain transfer by the caller; an error aborts the call.
ft_transfer(L, predecessor, receiver_id, amount, hook_state) ==
    LET o == transfer(L, Nep141Transfer(predecessor, receiver_id, amount,
                                        "none", FALSE), hook_state)
    IN  IF o.result # "Ok" THEN FtOutcome(L, "Panic", << >>)
        ELSE FtOutcome(o.ledger, "Ok", o.trace)

\* ft_transfer_call: the budget check, the optimistic transfer, then the
\* receiver call and the chained resolver call.
ft_transfer_call(L, predecessor, receiver_id, amount, msg, prepaid_gas, hook_state) ==
    IF prepaid_gas < GAS_FOR_FT_TRANSFER_CALL THEN FtOutcome(L, "PanicGas", << >>)
    ELSE LET o == transfer(L, Nep141Transfer(predecessor, receiver_id, amount,
                                             msg, FALSE), hook_state)
         IN  IF o.result # "Ok" THEN FtOutcome(L, "Panic", << >>)
             ELSE FtOutcome(o.ledger, "Ok",
                    o.trace \o
                    << <<"ft_on_transfer", receiver_id, predecessor, amount, msg>>,
                       <<"ft_resolve_transfer", predecessor, receiver_id,
                         amount>> >>)

Min(x, y) == IF x <= y THEN x ELSE y

\* Faulty variant: the receiver's figure is taken as it is.
unused_amount_unbounded(promise_result, amount) ==
    IF promise_result.tag = "Successful" /\ promise_result.value # None
    THEN promise_result.value
    ELSE amount

\* The amount the resolver is to move back, given the receiver's result.
unused_amount(promise_result, amount) ==
    IF promise_result.tag = "Successful" /\ promise_result.value # None
    THEN Min(promise_result.value, amount)
    ELSE amount

\* ft_resolve_transfer: moves the unused amount back with an ordinary
\* transfer marked as a revert; when that transfer fails no reversal is
\* performed.  The result is the amount the receiver is left with.
ft_resolve_transfer(L, sender_id, receiver_id, amount, promise_result, hook_state) ==
    LET unused == unused_amount(promise_result, amount)
    IN  IF unused > 0
        THEN LET o == transfer(L, Nep141Transfer(receiver_id, sender_id, unused,
                                                 "none", TRUE), hook_state)
             IN  IF o.result = "Ok"
                 THEN FtOutcome(o.ledger, "Reverted", o.trace)
                 ELSE FtOutcome(L, "NoReversal", << >>)
        ELSE FtOutcome(L, "Kept", << >>)

FtTransferEvents(tr) ==
    Cardinality({i \in 1..Len(tr) : tr[i][1] = "FtTransfer"})

FtStep(op, sender, receiver, amount, o) ==
    /\ Commit(o.ledger)
    /\ last' = Call(op, sender, receiver, amount, o.result)
    /\ trace' = o.trace
    /\ UNCHANGED <<nft_vars, rbac_vars, slot_token_metadata>>

\* The token is issued: a supply of 100, minted at once or in two halves.
FtSupply ==
    /\ ft_call.stage = "none"
    /\ \E a \in Accounts, n \in {50, 100}, h \in HookStates :
         /\ total_supply(Ledger) + n <= 100
         /\ FtStep("mint", a, a, n, mint(Ledger, a, n, h))
         /\ UNCHANGED ft_call

FtTransferCall ==
    /\ ft_call.stage = "none"
    /\ \E s \in Accounts, r \in Accounts, n \in {30, 100}, m \in FtMsgs,
          g \in {GAS_FOR_FT_TRANSFER_CALL - 1, GAS_FOR_FT_TRANSFER_CALL},
          h \in HookStates :
         LET o == ft_transfer_call(Ledger, s, r, n, m, g, h)
         IN  /\ FtStep("ft_transfer_call", s, r, n, o)
             /\ ft_call' =
                  IF o.result = "Ok"
                  THEN FtCall("receiver", s, r, n, m, NotReady,
                              Balances(balance_of(Ledger, s),
                                       balance_of(Ledger, r),
                                       total_supply(Ledger)),
                              FtTransferEvents(o.trace))
                  ELSE ft_call

\* The receiver contract runs ft_on_transfer.
FtOnTransfer ==
    /\ ft_call.stage = "receiver"
    /\ LET c == ft_call
           r == ft_on_transfer(c.sender_id, c.amount, c.msg)
       IN  /\ ft_call' = IF r.ft_transfer = NoOwner
                         THEN [c EXCEPT !.stage = "resolver",
                                        !.result = r.result]
                         ELSE [c EXCEPT !.stage = "receiver_transfer",
                                        !.result = r.result]
           /\ last' = Call("ft_on_transfer", c.sender_id, c.receiver_id,
                           c.amount, r.result.tag)
           /\ trace' = << >>
           /\ UNCHANGED <<slot_account, slot_total_supply, nft_vars, rbac_vars, slot_token_metadata>>

\* The ft_transfer the receiver issued from its callback runs on the token
\* contract; then the receiver's return_value callback yields its result.
FtReceiverTransfer ==
    /\ ft_call.stage = "receiver_transfer"
    /\ \E h \in HookStates :
         LET c == ft_call
             o == ft_transfer(Ledger, c.receiver_id,
                              strip_prefix_transfer(c.msg), c.amount, h)
         IN  /\ FtStep("ft_transfer", c.receiver_id,
                       strip_prefix_transfer(c.msg), c.amount, o)
             /\ ft_call' = [c EXCEPT !.stage = "resolver",
                                     !.transfer_events =
                                         @ + FtTransferEvents(o.trace)]

FtResolveTransfer ==
    /\ ft_call.stage = "resolver"
    /\ \E h \in HookStates :
         LET c == ft_call
             o == ft_resolve_transfer(Ledger, c.sender_id, c.receiver_id,
                                      c.amount, c.result, h)
         IN  /\ FtStep("ft_resolve_transfer", c.sender_id, c.receiver_id,
                       c.amount, o)
             /\ ft_call' = [c EXCEPT !.stage = "done",
                                     !.transfer_events =
                                         @ + FtTransferEvents(o.trace)]

NextFtCall ==
    \/ FtSupply
    \/ FtTransferCall
    \/ FtOnTransfer
    \/ FtReceiverTransfer
    \/ FtResolveTransfer

SpecFtCall == Init /\ [][NextFtCall]_vars

(***************************************************************************)
(* The same protocol with any receiver contract: ft_on_transfer may return *)
(* any U128 as the unused amount, more than it was sent included, or fail. *)
(***************************************************************************)
UnusedAmounts == {0, 10, 30, 31, 100}

FtOnTransferAny ==
    /\ ft_call.stage = "receiver"
    /\ \E r \in {FtSuccessful(u) : u \in UnusedAmounts} \cup {FtFailed} :
         /\ ft_call' = [ft_call EXCEPT !.stage = "resolver", !.result = r]
         /\ last' = Call("ft_on_transfer", ft_call.sender_id,
                         ft_call.receiver_id, ft_call.amount, r.tag)
         /\ trace' = << >>
         /\ UNCHANGED <<slot_account, slot_total_supply, nft_vars, rbac_vars, slot_token_metadata>>

NextFtAny ==
    \/ FtSupply
    \/ FtTransferCall
    \/ FtOnTransfer
    \/ FtOnTransferAny
    \/ FtReceiverTransfer
    \/ FtResolveTransfer

SpecFtAny == Init /\ [][NextFtAny]_vars

(***************************************************************************)
(* Properties of the fungible transfer-call                                *)
(***************************************************************************)
\* The scenario of C10: 30 out of a sender's 100, to a receiver that holds
\* nothing, with the message that makes the receiver report all as unused.
C10_Scenario ==
    /\ ft_call.stage # "none"
    /\ ft_call.sender_id # ft_call.receiver_id
    /\ ft_call.amount = 30
    /\ ft_call.msg = "return"
    /\ ft_call.before = Balances(100, 0, 100)

\* C10: in that scenario the sender holds 70 and the receiver 30 until the
\* resolver has run, 100 and 0 after it, two FtTransfer events have been
\* emitted by then (one before), and the total supply is 100 throughout.
C10_RejectReversed ==
    C10_Scenario =>
        /\ total_supply(Ledger) = 100
        /\ IF ft_call.stage = "done"
           THEN /\ balance_of(Ledger, ft_call.sender_id) = 100
                /\ balance_of(Ledger, ft_call.receiver_id) = 0
                /\ ft_call.transfer_events = 2
                /\ last.op = "ft_resolve_transfer" => last.result = "Reverted"
           ELSE /\ balance_of(Ledger, ft_call.sender_id) = 70
                /\ balance_of(Ledger, ft_call.receiver_id) = 30
                /\ ft_call.transfer_events = 1

C10_Witness ==
    /\ C10_Scenario
    /\ ft_call.stage = "done"
    /\ ft_call.sender_id = "alice"
    /\ ft_call.receiver_id = "bob"
    /\ trace = << <<"before_transfer", "s1">>,
                  <<"FtTransfer", "bob", "alice", 30>>,
                  <<"after_transfer", "s1">> >>

\* The amount the resolver step moves to the sender of the transfer-call.
MovedBack == balance_of(LedgerNext, ft_call.sender_id)
               - balance_of(Ledger, ft_call.sender_id)

\* What the receiver reported as unused; a failed call counts as everything.
Reported == IF ft_call.result.tag = "Successful" THEN ft_call.result.value
            ELSE ft_call.amount

\* C13: whatever unused amount u the receiver of a transfer-call of n
\* reports, u > n included, the resolver moves at most n from the receiver
\* to the sender, nothing else changes, and what it moves is exactly
\* min(u, n) when the receiver holds that much.
C13_ClawbackBound ==
    [][ ( /\ last'.op = "ft_resolve_transfer"
          /\ ft_call.sender_id # ft_call.receiver_id )
        => ( /\ MovedBack \in 0..ft_call.amount
             /\ balance_of(LedgerNext, ft_call.receiver_id)
                  = balance_of(Ledger, ft_call.receiver_id) - MovedBack
             /\ total_supply(LedgerNext) = total_supply(Ledger)
             /\ \A a \in Accounts \ {ft_call.sender_id, ft_call.receiver_id} :
                    balance_of(LedgerNext, a) = balance_of(Ledger, a)
             /\ balance_of(Ledger, ft_call.receiver_id)
                    >= Min(Reported, ft_call.amount)
                => MovedBack = Min(Reported, ft_call.amount) )
      ]_vars

C13_Witness ==
    /\ ft_call.stage = "done"
    /\ last.op = "ft_resolve_transfer"
    /\ last.result = "Reverted"
    /\ ft_call.amount = 30
    /\ ft_call.result = FtSuccessful(31)
    /\ ft_call.before = Balances(50, 50, 100)
    /\ balance_of(Ledger, ft_call.sender_id) = 50
    /\ balance_of(Ledger, ft_call.receiver_id) = 50

\* The receiver of the transfer-call has sent what it received on to a third
\* account from its callback and has then reported all of it as unused.
C14_Spent ==
    /\ ft_call.stage = "resolver"
    /\ ft_call.sender_id # ft_call.receiver_id
    /\ strip_prefix_transfer(ft_call.msg)
         \notin {NoOwner, ft_call.sender_id, ft_call.receiver_id}
    /\ ft_call.transfer_events = 2
    /\ ft_call.result = FtSuccessful(ft_call.amount)

C14_NothingCreated ==
    /\ total_supply(LedgerNext) = total_supply(Ledger)
    /\ SumOfBalances(LedgerNext, Accounts) = SumOfBalances(Ledger, Accounts)
    /\ \A a \in Accounts : slot_account'[a] \in {None} \cup (0..U128Max)

\* C14 as stated: after the receiver has sent the amount on and reported it
\* all as unused, the resolver's reversal fails, no reversal is reported and
\* the ledger is as before.
C14_SpentClawbackFails ==
    [][ (last'.op = "ft_resolve_transfer" /\ C14_Spent)
        => ( /\ C14_NothingCreated
             /\ last'.result = "NoReversal"
             /\ LedgerUnchanged ) ]_vars

\* C14, with the case it holds in: in that situation the resolver creates
\* no tokens and leaves no balance negative, the total supply and the sum
\* of balances are as before; and when the receiver is left with less than
\* the amount, the reversal fails on the receiver's balance, no reversal is
\* reported, no hook runs, no event is emitted and the ledger is as before.
C14_SpentClawback ==
    [][ (last'.op = "ft_resolve_transfer" /\ C14_Spent)
        => ( /\ C14_NothingCreated
             /\ balance_of(Ledger, ft_call.receiver_id) < ft_call.amount
                => ( /\ last'.result = "NoReversal"
                     /\ LedgerUnchanged
                     /\ trace' = << >> )
             /\ transfer_unchecked(Ledger, ft_call.receiver_id,
                                   ft_call.sender_id, ft_call.amount).result
                  \in {"Ok", "BalanceUnderflow"} ) ]_vars

C14_Witness ==
    /\ ft_call.stage = "done"
    /\ last.op = "ft_resolve_transfer"
    /\ last.result = "NoReversal"
    /\ ft_call.msg = "transfer:carol"
    /\ ft_call.amount = 30
    /\ ft_call.transfer_events = 2
    /\ balance_of(Ledger, ft_call.sender_id) = 70
    /\ balance_of(Ledger, ft_call.receiver_id) = 0
    /\ balance_of(Ledger, "carol") = 30

(***************************************************************************)
(* Plain transfers                                                         *)
(***************************************************************************)
\* Entries of a call's log that are calls to a receiver or to a resolver.
AsyncCalls(tr) ==
    {i \in 1..Len(tr) : tr[i][1] \in {"ft_on_transfer", "ft_resolve_transfer",
                                      "nft_on_transfer", "nft_resolve_transfer"}}

\* C17: a transfer of n from A to B without a message, A and B distinct and
\* n within A's balance, succeeds, takes n from A, gives n to B, leaves the
\* total supply as it was, emits one transfer event and calls no receiver
\* and no resolver.
C17_PlainTransfer ==
    [][ ( /\ last'.op = "transfer"
          /\ last'.sender # last'.receiver
          /\ last'.amount <= balance_of(Ledger, last'.sender) )
        => ( /\ last'.result = "Ok"
             /\ balance_of(LedgerNext, last'.sender)
                  = balance_of(Ledger, last'.sender) - last'.amount
             /\ balance_of(LedgerNext, last'.receiver)
                  = balance_of(Ledger, last'.receiver) + last'.amount
             /\ total_supply(LedgerNext) = total_supply(Ledger)
             /\ FtTransferEvents(trace') = 1
             /\ AsyncCalls(trace') = {} ) ]_vars

\* The non-fungible half of C17: an nft_transfer that succeeds reassigns the
\* token to the receiver and schedules no call.
NftPlainTransfer ==
    [][ ( nft_last'.op = "nft_transfer" /\ nft_last'.result = "Ok" )
        => ( /\ token_owner(token_owners', nft_last'.token) = nft_last'.receiver
             /\ Cardinality(NftTransferEvents(trace')) = 1
             /\ AsyncCalls(trace') = {}
             /\ promises' = promises ) ]_vars

\* C18: the reassignment made by a committed nft_transfer is final: no
\* resolver step of a transfer-call in flight for the same token undoes it.
\* Stated for the resolver step that comes next after a plain transfer
\* between two accounts: the account the plain transfer gave the token to
\* still owns it.
C18_PlainTransferFinal ==
    [][ ( /\ nft_last.op = "nft_transfer"
          /\ nft_last.result = "Ok"
          /\ nft_last.sender # nft_last.receiver
          /\ nft_last'.op = "nft_resolve_transfer"
          /\ nft_last'.token = nft_last.token )
        => token_owner(token_owners', nft_last.token) = nft_last.receiver
      ]_vars

(***************************************************************************)
(* The execution budget of a transfer-call                                 *)
(***************************************************************************)
\* Prepaid gas below the minimum: none, and one unit short.
ShortOf(minimum) == {0, minimum - 1}

\* Ledgers to call ft_transfer_call on: the whole supply with one account.
FundedLedgers ==
    {[account |-> [a \in Accounts |-> IF a = x THEN U128Max ELSE None],
      total |-> U128Max] : x \in Accounts}

\* An nft_transfer_call made in the current state with too little gas
\* panics, whoever makes it and whatever else it is given: the ownership
\* entries are as before and no hook, event or call is logged.  With a
\* well-formed deposit and approval_id the panic is that of the gas check.
C19_NftBudget ==
    \A caller \in Accounts, r \in Accounts, t \in Tokens, c \in Contexts,
       g \in ShortOf(GAS_FOR_NFT_TRANSFER_CALL), m \in Msgs, h \in HookStates :
        LET o == nft_transfer_call(token_owners, caller, c.deposit, g, r, t,
                                   c.approval_id, m, h)
        IN  /\ IsPanic(o.result)
            /\ o.owners = token_owners
            /\ o.trace = << >>
            /\ (c.deposit = 1 /\ c.approval_id = None) => o.result = "PanicGas"

C19_FtBudget ==
    \A L \in FundedLedgers, s \in Accounts, r \in Accounts, n \in Amounts,
       m \in FtMsgs, g \in ShortOf(GAS_FOR_FT_TRANSFER_CALL), h \in HookStates :
        ft_transfer_call(L, s, r, n, m, g, h) = FtOutcome(L, "PanicGas", << >>)

\* C19: a transfer-call whose prepaid gas is below GAS_FOR_NFT_TRANSFER_CALL
\* (GAS_FOR_FT_TRANSFER_CALL for the fungible one) fails before the ledger
\* is touched, before any hook runs and before any call is issued: in every
\* state such a call can only panic, and the step of a call refused for its
\* gas leaves the ownership entries and the promise chains as they were and
\* logs nothing.
C19_InsufficientBudget ==
    /\ C19_FtBudget
    /\ []C19_NftBudget
    /\ [][ nft_last'.result = "PanicGas"
            => ( /\ nft_last'.op = "nft_transfer_call"
                 /\ token_owners' = token_owners
                 /\ promises' = promises
                 /\ trace' = << >> ) ]_vars

C19_Witness ==
    /\ nft_last.op = "nft_transfer_call"
    /\ nft_last.result = "PanicGas"
    /\ token_owners # {}
    /\ promises = EmptyBag

(***************************************************************************)
(* Hooks                                                                   *)
(***************************************************************************)
\* In a call's log the before hook ran once, the after hook ran once, after
\* it, and was given the value the before hook had returned.
Threaded(tr, before, after) ==
    /\ Cardinality(Positions(tr, before)) = 1
    /\ Cardinality(Positions(tr, after)) = 1
    /\ \A i \in Positions(tr, before), j \in Positions(tr, after) :
           i < j /\ tr[i][2] = tr[j][2]

\* Ownership ledgers to call the non-fungible entry points on.
SmallOwners == {{}} \cup {{<<t, a>>} : t \in Tokens, a \in Accounts}

\* The hooks of the non-fungible entry points: whenever nft_transfer,
\* nft_transfer_call or the reversal of nft_resolve_transfer goes through,
\* the value of before_nft_transfer reaches after_nft_transfer.
C20_NftThreaded ==
    \A O \in SmallOwners, caller \in Accounts, r \in Accounts, t \in Tokens,
       h \in HookStates :
        LET o1 == nft_transfer(O, caller, 1, r, t, None, h)
            o2 == nft_transfer_call(O, caller, 1, GAS_FOR_NFT_TRANSFER_CALL,
                                    r, t, None, "msg", h)
            o3 == nft_resolve_transfer(O, CurrentAccount, <<Failed>>,
                                       caller, r, t, h)
        IN  /\ o1.result = "Ok"
               => Threaded(o1.trace, "before_nft_transfer", "after_nft_transfer")
            /\ o2.result = "Ok"
               => Threaded(o2.trace, "before_nft_transfer", "after_nft_transfer")
            /\ o3.result = "false"
               => Threaded(o3.trace, "before_nft_transfer", "after_nft_transfer")
            /\ o3.result = "true" => o3.trace = << >>

\* C20: in every transfer, mint and burn that succeeds the before hook runs
\* once and the after hook runs once, after it, with the value the before
\* hook returned; the same holds of the non-fungible entry points.
C20_CarriedState ==
    /\ C20_NftThreaded
    /\ [][ last'.result = "Ok"
            => /\ last'.op = "transfer"
                  => Threaded(trace', "before_transfer", "after_transfer")
               /\ last'.op = "mint"
                  => Threaded(trace', "before_mint", "after_mint")
               /\ last'.op = "burn"
                  => Threaded(trace', "before_burn", "after_burn")
          ]_vars

C20_Witness ==
    /\ last.op = "transfer"
    /\ last.result = "Ok"
    /\ last.sender # last.receiver
    /\ last.amount > 0
    /\ trace = << <<"before_transfer", "s2">>,
                  <<"FtTransfer", last.sender, last.receiver, last.amount>>,
                  <<"after_transfer", "s2">> >>

(***************************************************************************)
(* Failure of a transfer and of a hook                                     *)
(***************************************************************************)
\* nft_transfer aborts when the controller refuses the reassignment: the
\* receipt leaves the owners as they were and logs nothing.
C21_NftTransferFails ==
    \A O \in SmallOwners, caller \in Accounts, r \in Accounts, t \in Tokens,
       h \in HookStates :
        LET o == nft_transfer(O, caller, 1, r, t, None, h)
        IN  o.result # "Ok" => o.owners = O /\ o.trace = << >>

\* C21: when the balance move (or the ownership reassignment) of a transfer
\* fails, no transfer event is emitted, the after hook is not invoked, so
\* that no hook has written anything, and the ledger is unchanged.
C21_TransferFailsAtomically ==
    /\ C21_NftTransferFails
    /\ [][ (last'.op = "transfer" /\ last'.result # "Ok")
            => /\ LedgerUnchanged
               /\ Positions(trace', "FtTransfer") = {}
               /\ Positions(trace', "after_transfer") = {}
          ]_vars

C21_Witness ==
    /\ last.op = "transfer"
    /\ last.result = "BalanceUnderflow"
    /\ last.sender # last.receiver
    /\ balance_of(Ledger, last.sender) > 0
    /\ trace = << <<"before_transfer", "s2">> >>

\* The before hook of nft_transfer panics: the receipt leaves the owners as
\* they were and logs nothing.
C22_NftVeto ==
    \A O \in SmallOwners, caller \in Accounts, r \in Accounts, t \in Tokens :
        LET o == nft_transfer(O, caller, 1, r, t, None, HookPanics)
        IN  o.result = "PanicHook" /\ o.owners = O /\ o.trace = << >>

\* Whatever the ledger and the arguments, a transfer, mint or burn whose
\* before hook panics writes nothing and logs nothing.
C22_FtVeto ==
    \A a \in Accounts, r \in Accounts, n \in Amounts :
        LET o1 == transfer(Ledger, Nep141Transfer(a, r, n, "none", FALSE),
                           HookPanics)
            o2 == mint(Ledger, a, n, HookPanics)
            o3 == burn(Ledger, a, n, HookPanics)
        IN  \A o \in {o1, o2, o3} :
                o.result = "PanicHook" /\ o.ledger = Ledger /\ o.trace = << >>

ReversalLog(previous_owner_id, receiver_id, token_id, hook_state) ==
    << <<"before_nft_transfer", hook_state>>,
       <<"NftTransfer", receiver_id, previous_owner_id, token_id>>,
       <<"after_nft_transfer", hook_state>> >>

\* The reversal of the resolver, for every hook value: the log of an ordinary
\* transfer back and the token with the previous owner.
C24_ReversalOfOperator ==
    \A O \in SmallOwners, a \in Accounts, r \in Accounts, t \in Tokens,
       h \in HookStates, pr \in PromiseResults :
        LET o == nft_resolve_transfer(O, CurrentAccount, <<pr>>, a, r, t, h)
            back == nft_transfer(O, r, 1, a, t, None, h)
        IN  o.result = "false"
            => /\ o.trace = ReversalLog(a, r, t, h)
               /\ o.owners = write_token_owner(O, t, a)
               /\ back.result = "Ok"
               /\ o.owners = back.owners
               /\ o.trace = back.trace

\* C24: when the resolver reverts, it invokes the before-transfer hook,
\* reassigns the token from the receiver to the original sender, logs a
\* transfer event for that move and invokes the after-transfer hook with the
\* before hook's value, in that order, as a transfer back would.
C24_ReversalIsTransferBack ==
    /\ [] C24_ReversalOfOperator
    /\ [][ (nft_last'.op = "nft_resolve_transfer" /\ nft_last'.result = "false")
            => /\ \E h \in NftHookStates :
                      SubSeq(trace', 2, Len(trace'))
                        = ReversalLog(nft_last'.sender, nft_last'.receiver,
                                      nft_last'.token, h)
               /\ token_owner(token_owners, nft_last'.token)
                     = nft_last'.receiver
               /\ token_owner(token_owners', nft_last'.token)
                     = nft_last'.sender
          ]_vars

C24_Witness ==
    /\ nft_last.op = "nft_resolve_transfer"
    /\ nft_last.result = "false"
    /\ nft_last.sender # nft_last.receiver
    /\ trace = << <<"promise_result", Successful("null")>> >>
               \o ReversalLog(nft_last.sender, nft_last.receiver,
                              nft_last.token, "s1")

(***************************************************************************)
(* Role-based access control (Rbac).  The members of a role are an         *)
(* UnorderedSet in the role's storage slot; every access goes through      *)
(* with_members_of, which reads the slot (a new empty set when it is       *)
(* absent), applies a closure and writes the set back.                     *)
(***************************************************************************)
REQUIRE_ROLE_FAIL_MESSAGE == "Unauthorized role"

PROHIBIT_ROLE_FAIL_MESSAGE == "Prohibited role"

\* slot.read().unwrap_or_else(|| UnorderedSet::new(..))
read_members_of(M, role) ==
    IF M[role] = {} THEN {} ELSE CHOOSE set \in M[role] : TRUE

\* The closure f is a function of the set read: it gives the set it leaves
\* and the value it returns.
with_members_of(M, role, f) ==
    LET set == read_members_of(M, role)
        r == f[set]
    IN  [members |-> [M EXCEPT ![role] = {r.set}], value |-> r.value]

has_role(M, account_id, role) ==
    LET contains == [set \in SUBSET RbacAccounts |->
                        [set |-> set, value |-> account_id \in set]]
    IN  with_members_of(M, role, contains)

\* Faulty variant: the role's set is started afresh instead of read from its slot.
add_role_fresh(M, account_id, role) == [M EXCEPT ![role] = {{account_id}}]

add_role(M, account_id, role) ==
    LET insert == [set \in SUBSET RbacAccounts |->
                      [set |-> set \cup {account_id},
                       value |-> account_id \notin set]]
    IN  with_members_of(M, role, insert).members

remove_role(M, account_id, role) ==
    LET remove == [set \in SUBSET RbacAccounts |->
                      [set |-> set \ {account_id},
                       value |-> account_id \in set]]
    IN  with_members_of(M, role, remove).members

\* A guard method that returned, and one whose require! aborted the receipt.
Guarded(M) == [members |-> M, result |-> "Ok"]

Denied(M, message) == [members |-> M, result |-> message]

\* Faulty variant: the role is read but not required.
require_role_unchecked(M, predecessor, role) ==
    Guarded(has_role(M, predecessor, role).members)

require_role(M, predecessor, role) ==
    LET h == has_role(M, predecessor, role)
    IN  IF h.value THEN Guarded(h.members)
        ELSE Denied(M, REQUIRE_ROLE_FAIL_MESSAGE)

prohibit_role(M, predecessor, role) ==
    LET h == has_role(M, predecessor, role)
    IN  IF ~h.value THEN Guarded(h.members)
        ELSE Denied(M, PROHIBIT_ROLE_FAIL_MESSAGE)

\* impl Guard for Role, None, Any and All.
RECURSIVE apply(_, _)
apply(g, account_id) ==
    CASE g.kind = "Role" -> TRUE
      [] g.kind = "None" ->
            \A i \in 1..Len(g.guards) : ~apply(g.guards[i], account_id)
      [] g.kind = "Any" ->
            \E i \in 1..Len(g.guards) : apply(g.guards[i], account_id)
      [] g.kind = "All" ->
            \A i \in 1..Len(g.guards) : apply(g.guards[i], account_id)

rbac_guard(account_id, g) ==
    IF apply(g, account_id) THEN "Ok" ELSE "Unauthorized role"

\* The guards the model calls rbac_guard! with: each role, all / any / none
\* of the lists of roles below, and one guard nested in another.
RoleGuard(role) == Guard("Role", role, << >>)

RoleGuards(roles) == [i \in 1..Len(roles) |-> RoleGuard(roles[i])]

RoleLists == {<< >>, <<"A">>, <<"B", "C">>, <<"A", "B", "C">>}

Guards ==
    {RoleGuard(r) : r \in Roles}
    \cup {Guard(k, "none", RoleGuards(l)) :
             k \in {"All", "Any", "None"}, l \in RoleLists}
    \cup {Guard("All", "none",
                << Guard("Any", "none", RoleGuards(<<"A", "B">>)),
                   Guard("None", "none", RoleGuards(<<"C">>)) >>)}

RbacStep(op, account_id, role, g, M, result) ==
    /\ slot_members_of' = M
    /\ rbac_last' = RbacCall(op, account_id, role, g, result)
    /\ UNCHANGED <<ft_vars, nft_vars, trace, slot_token_metadata>>

RbacAddRole ==
    \E a \in RbacAccounts, r \in Roles :
        RbacStep("add_role", a, r, NoGuard, add_role(slot_members_of, a, r),
                 "Ok")

RbacRemoveRole ==
    \E a \in RbacAccounts, r \in Roles :
        RbacStep("remove_role", a, r, NoGuard,
                 remove_role(slot_members_of, a, r), "Ok")

RbacHasRole ==
    \E a \in RbacAccounts, r \in Roles :
        LET h == has_role(slot_members_of, a, r)
        IN  RbacStep("has_role", a, r, NoGuard, h.members,
                     IF h.value THEN "true" ELSE "false")

RbacRequireRole ==
    \E predecessor \in RbacAccounts, r \in Roles :
        LET o == require_role(slot_members_of, predecessor, r)
        IN  RbacStep("require_role", predecessor, r, NoGuard, o.members,
                     o.result)

RbacProhibitRole ==
    \E predecessor \in RbacAccounts, r \in Roles :
        LET o == prohibit_role(slot_members_of, predecessor, r)
        IN  RbacStep("prohibit_role", predecessor, r, NoGuard, o.members,
                     o.result)

RbacGuard ==
    \E a \in RbacAccounts, g \in Guards :
        RbacStep("rbac_guard", a, "none", g, slot_members_of,
                 rbac_guard(a, g))

NextRbac ==
    \/ RbacAddRole
    \/ RbacRemoveRole
    \/ RbacHasRole
    \/ RbacRequireRole
    \/ RbacProhibitRole
    \/ RbacGuard

SpecRbac == Init /\ [][NextRbac]_vars

(***************************************************************************)
(* Properties of Rbac                                                      *)
(***************************************************************************)
\* Whether the account has the role, in the state and after the step.
Member(account_id, role) == has_role(slot_members_of, account_id, role).value

MemberNext(account_id, role) ==
    has_role(slot_members_of', account_id, role).value

MembershipUnchanged ==
    \A a \in RbacAccounts, r \in Roles : MemberNext(a, r) = Member(a, r)

\* C25: no account has a role initially; add_role(a, r) makes has_role(a, r)
\* true and remove_role(a, r) makes it false, whatever it was; every other
\* pair, and every pair in a step that is neither, keeps its has_role.  So
\* has_role(a, r) is what the last add_role / remove_role on (a, r) made it.
C25_RoleMembership ==
    /\ [](rbac_last = NoRbacCall
          => \A a \in RbacAccounts, r \in Roles : ~Member(a, r))
    /\ [][ \A a \in RbacAccounts, r \in Roles :
             MemberNext(a, r)
               = IF rbac_last'.account_id = a /\ rbac_last'.role = r
                    /\ rbac_last'.op = "add_role" THEN TRUE
                 ELSE IF rbac_last'.account_id = a /\ rbac_last'.role = r
                         /\ rbac_last'.op = "remove_role" THEN FALSE
                 ELSE Member(a, r)
         ]_vars

C25_Witness ==
    /\ rbac_last = RbacCall("remove_role", "alice", "B", NoGuard, "Ok")
    /\ ~Member("alice", "B")
    /\ Member("alice", "A")
    /\ Member("bob", "B")
    /\ ~Member("bob", "A")

\* C26: require_role(r) returns exactly when the predecessor has role r and
\* aborts with "Unauthorized role" otherwise; prohibit_role(r) returns
\* exactly when the predecessor does not have role r and aborts with
\* "Prohibited role" otherwise; neither changes who has which role.
C26_RoleGuards ==
    [][ /\ rbac_last'.op = "require_role"
           => /\ rbac_last'.result
                   = IF Member(rbac_last'.account_id, rbac_last'.role)
                     THEN "Ok" ELSE "Unauthorized role"
              /\ MembershipUnchanged
        /\ rbac_last'.op = "prohibit_role"
           => /\ rbac_last'.result
                   = IF ~Member(rbac_last'.account_id, rbac_last'.role)
                     THEN "Ok" ELSE "Prohibited role"
              /\ MembershipUnchanged
      ]_vars

C26_Witness ==
    /\ rbac_last = RbacCall("prohibit_role", "alice", "A", NoGuard,
                            "Prohibited role")
    /\ Member("alice", "A")
    /\ ~Member("alice", "B")

\* What a guard says of an account when a role stands for having the role.
RECURSIVE Holds(_, _)
Holds(g, account_id) ==
    CASE g.kind = "Role" -> Member(account_id, g.role)
      [] g.kind = "None" ->
            \A i \in 1..Len(g.guards) : ~Holds(g.guards[i], account_id)
      [] g.kind = "Any" ->
            \E i \in 1..Len(g.guards) : Holds(g.guards[i], account_id)
      [] g.kind = "All" ->
            \A i \in 1..Len(g.guards) : Holds(g.guards[i], account_id)

\* C27: rbac_guard!(R) passes exactly when the account has role R and aborts
\* with "Unauthorized role" otherwise; all(..) passes when the account has
\* every listed role, any(..) when it has at least one and none(..) when it
\* has none of them.
C27_GuardEvaluatesMembership ==
    [][ rbac_last'.op = "rbac_guard"
        => rbac_last'.result
             = IF Holds(rbac_last'.guard, rbac_last'.account_id)
               THEN "Ok" ELSE "Unauthorized role"
      ]_vars

(***************************************************************************)
(* Order of the steps of mint and burn, events, zero amounts               *)
(***************************************************************************)
\* C28: a successful mint or burn runs its before hook, makes the deposit
\* or withdrawal, emits its own event and then runs its after hook with the
\* carried state, in the order in which transfer runs before hook, balance
\* move, transfer event, after hook.
C28_MintBurnOrder ==
    [][ last'.result = "Ok"
        => /\ last'.op = "transfer"
              => \E h \in HookStates :
                     trace' = << <<"before_transfer", h>>,
                                 <<"FtTransfer", last'.sender, last'.receiver,
                                   last'.amount>>,
                                 <<"after_transfer", h>> >>
           /\ last'.op = "mint"
              => \E h \in HookStates :
                     trace' = << <<"before_mint", h>>,
                                 <<"FtMint", last'.sender, last'.amount>>,
                                 <<"after_mint", h>> >>
           /\ last'.op = "burn"
              => \E h \in HookStates :
                     trace' = << <<"before_burn", h>>,
                                 <<"FtBurn", last'.sender, last'.amount>>,
                                 <<"after_burn", h>> >>
      ]_vars

\* The events in a call's log.
EventsOf(tr) ==
    {i \in 1..Len(tr) : tr[i][1] \in {"FtTransfer", "FtMint", "FtBurn",
                                      "NftTransfer", "NftMint", "NftBurn"}}

ExactlyOneEvent(tr, event) ==
    /\ Cardinality(EventsOf(tr)) = 1
    /\ \A i \in EventsOf(tr) : tr[i] = event

\* The resolver of nft_transfer_call: one NftTransfer event receiver ->
\* previous owner for the token when it reverts, none otherwise.
C29_ReversalEvent ==
    \A O \in SmallOwners, a \in Accounts, r \in Accounts, t \in Tokens,
       h \in HookStates, pr \in PromiseResults :
        LET o == nft_resolve_transfer(O, CurrentAccount, <<pr>>, a, r, t, h)
        IN  IF o.result = "false"
            THEN ExactlyOneEvent(o.trace, <<"NftTransfer", r, a, t>>)
            ELSE EventsOf(o.trace) = {} /\ o.owners = O

C30_ZeroAmountNoOp ==
    /\ \A a \in Accounts :
          LET d == deposit_unchecked(Ledger, a, 0)
              w == withdraw_unchecked(Ledger, a, 0)
          IN  /\ d.result = "Ok" /\ d.ledger = Ledger
              /\ w.result = "Ok" /\ w.ledger = Ledger
              /\ \A b \in Accounts :
                    /\ balance_of(d.ledger, b) = balance_of(Ledger, b)
                    /\ balance_of(w.ledger, b) = balance_of(Ledger, b)
              /\ total_supply(d.ledger) = total_supply(Ledger)
              /\ total_supply(w.ledger) = total_supply(Ledger)
              /\ slot_account[a] = None => balance_of(Ledger, a) = 0
    /\ slot_total_supply = None => total_supply(Ledger) = 0

C30_Witness ==
    /\ last = Call("burn", "carol", "carol", 0, "Ok")
    /\ slot_account["carol"] = None
    /\ balance_of(Ledger, "bob") = 0
    /\ slot_account["bob"] # None
    /\ total_supply(Ledger) = U128Max
    /\ balance_of(Ledger, "alice") = U128Max

(***************************************************************************)
(* Documented bounds of transfer_unchecked                                 *)
(***************************************************************************)
\* C31: a transfer fails exactly when the balance of the sender is less than
\* the amount or the balance of the receiver plus the amount is at least the
\* u128 maximum, so that a transfer which would bring the receiver to
\* exactly the maximum is rejected (sender and receiver distinct).
C31_DocumentedBounds ==
    [][ (last'.op = "transfer" /\ last'.sender # last'.receiver)
        => ( last'.result # "Ok"
             <=> \/ balance_of(Ledger, last'.sender) < last'.amount
                 \/ balance_of(Ledger, last'.receiver) + last'.amount
                      >= U128Max )
      ]_vars

(***************************************************************************)
(* The calls of a transfer-call: arguments and gas                         *)
(***************************************************************************)
\* The receiver call and the resolver call in the log of a transfer-call.
ReceiverCalls(tr) == {tr[i] : i \in Positions(tr, "nft_on_transfer")}

ResolverCalls(tr) == {tr[i] : i \in Positions(tr, "nft_resolve_transfer")}

OwnerCall(caller, r, t, prepaid_gas) ==
    nft_transfer_call(token_owners, caller, 1, prepaid_gas, r, t, None,
                      "msg", "s1")

C34_BudgetSplit ==
    /\ GAS_FOR_FT_TRANSFER_CALL >= GAS_FOR_RESOLVE_TRANSFER
    /\ \A t \in Tokens, r \in Accounts, caller \in Accounts,
          g \in 0..(GAS_FOR_NFT_TRANSFER_CALL + 1) :
          LET o == OwnerCall(caller, r, t, g)
          IN  o.result = "Ok"
              => \A c \in ReceiverCalls(o.trace), d \in ResolverCalls(o.trace) :
                    /\ c[3] = g - GAS_FOR_NFT_TRANSFER_CALL
                    /\ c[3] >= 0
                    /\ d[3] = GAS_FOR_RESOLVE_TRANSFER
                    /\ c[3] + d[3] <= g

C34_Witness ==
    /\ nft_last.op = "nft_transfer_call"
    /\ nft_last.result = "Ok"
    /\ \E c \in ReceiverCalls(trace), d \in ResolverCalls(trace) :
          c[3] = 1 /\ d[3] = GAS_FOR_RESOLVE_TRANSFER

(***************************************************************************)
(* Total supply underflow                                                  *)
(***************************************************************************)
\* No balance exceeds the total supply.
C35_BalanceWithinSupply ==
    \A a \in Accounts : balance_of(Ledger, a) <= total_supply(Ledger)

\* C35: in every state reached from the empty ledger by mint, burn and
\* transfer no balance exceeds the total supply, so that no burn returns
\* TotalSupplyUnderflow: a burn can only fail with BalanceUnderflow.
C35_NoSupplyUnderflow ==
    [][ /\ last'.result # "TotalSupplyUnderflow"
        /\ C35_BalanceWithinSupply'
      ]_vars

(***************************************************************************)
(* Guards of the resolver                                                  *)
(***************************************************************************)
\* In the current state every call of nft_resolve_transfer by an account
\* other than the contract aborts, whatever it is given.
C36_ExternalAborts ==
    \A predecessor \in Accounts, rs \in DirectResults, a \in Accounts,
       r \in Accounts, t \in Tokens, h \in HookStates :
        nft_resolve_transfer(token_owners, predecessor, rs, a, r, t, h)
          = Panic(token_owners, "PanicPrivate")

\* C36: nft_resolve_transfer is private to the contract: a call by any other
\* account aborts and changes no ownership entry, so that no external caller
\* moves a token held by a receiver back; what is scheduled stays scheduled.
C36_ResolverPrivate ==
    /\ [] C36_ExternalAborts
    /\ [][ nft_last'.result = "PanicPrivate"
            => /\ nft_last'.op = "nft_resolve_transfer"
               /\ token_owners' = token_owners
               /\ promises' = promises
               /\ trace' = << >>
         ]_vars

C36_Witness ==
    /\ nft_last.result = "PanicPrivate"
    /\ \E p \in BagToSet(promises) :
          /\ p.stage = "resolver"
          /\ p.previous_owner_id # p.receiver_id
          /\ token_owner(token_owners, p.token_id) = p.receiver_id

\* In the current state every entry of the contract into
\* nft_resolve_transfer with no promise result, or with two, aborts.
C37_WrongCountAborts ==
    \A rs \in DirectResults, a \in Accounts, r \in Accounts, t \in Tokens,
       h \in HookStates :
        LET o == nft_resolve_transfer(token_owners, CurrentAccount, rs, a, r,
                                      t, h)
        IN  IF Len(rs) # 1
            THEN o = Panic(token_owners, "PanicPromiseResults")
            ELSE o.result \in {"true", "false"}

\* C37: nft_resolve_transfer aborts without touching the ledger unless it is
\* entered with exactly one promise result.
C37_ResolverInputGuard ==
    /\ [] C37_WrongCountAborts
    /\ [][ nft_last'.result = "PanicPromiseResults"
            => /\ nft_last'.op = "nft_resolve_transfer"
               /\ token_owners' = token_owners
               /\ promises' = promises
               /\ trace' = << >>
         ]_vars

C37_Witness ==
    /\ nft_last.result = "PanicPromiseResults"
    /\ \E p \in BagToSet(promises) :
          /\ p.stage = "resolver"
          /\ p.previous_owner_id # p.receiver_id
          /\ token_owner(token_owners, p.token_id) = p.receiver_id

(***************************************************************************)
(* Properties of tokens with metadata                                      *)
(***************************************************************************)
MetaOps == {"mint_with_metadata", "burn_with_metadata", "set_token_metadata"}

\* A token id has stored metadata exactly when it has an owner, and
\* Token::load returns a token exactly when it has both.
C38_MetadataIffOwner ==
    \A t \in Tokens :
        /\ token_metadata(slot_token_metadata, t) # NoMetadata
           <=> token_owner(token_owners, t) # NoOwner
        /\ load(token_owners, slot_token_metadata, t) # {}
           <=> /\ token_owner(token_owners, t) # NoOwner
               /\ token_metadata(slot_token_metadata, t) # NoMetadata
        /\ \A k \in load(token_owners, slot_token_metadata, t) :
              /\ k.owner_id = token_owner(token_owners, t)
              /\ k.metadata = token_metadata(slot_token_metadata, t)

\* C38: after any sequence of mint_with_metadata, burn_with_metadata,
\* set_token_metadata and token transfers a token id has stored metadata
\* exactly when it has an owner; a mint_with_metadata or burn_with_metadata
\* that fails changes neither ownership nor metadata; Token::load returns a
\* token exactly when both owner and metadata exist.
C38_MetadataFollowsToken ==
    /\ [] C38_MetadataIffOwner
    /\ [][ ( /\ nft_last'.op \in {"mint_with_metadata", "burn_with_metadata"}
             /\ nft_last'.result # "Ok" )
           => /\ token_owners' = token_owners
              /\ slot_token_metadata' = slot_token_metadata
         ]_vars

C38_Witness ==
    /\ nft_last = NftCall("mint_with_metadata", "bob", "bob", "t1",
                          "TokenAlreadyExists")
    /\ token_owner(token_owners, "t1") = "alice"
    /\ load(token_owners, slot_token_metadata, "t1")
         = {[token_id |-> "t1", owner_id |-> "alice", metadata |-> "m2"]}

\* C39: set_token_metadata on a token id without an owner fails with
\* TokenNotFound, stores no metadata and emits no metadata-update event; on
\* an existing token it replaces the metadata, emits the event and leaves
\* the owner as it was.
C39_SetTokenMetadata ==
    [][ nft_last'.op = "set_token_metadata"
        => IF token_owner(token_owners, nft_last'.token) = NoOwner
           THEN /\ nft_last'.result = "TokenNotFound"
                /\ slot_token_metadata' = slot_token_metadata
                /\ token_owners' = token_owners
                /\ trace' = << >>
           ELSE /\ nft_last'.result = "Ok"
                /\ token_metadata(slot_token_metadata', nft_last'.token)
                     \in TokenMetadata
                /\ \A t \in Tokens \ {nft_last'.token} :
                      slot_token_metadata'[t] = slot_token_metadata[t]
                /\ token_owners' = token_owners
                /\ trace' = << <<"NftMetadataUpdate", nft_last'.token>> >>
      ]_vars

C39_Witness ==
    /\ nft_last = NftCall("set_token_metadata", "none", "none", "t1",
                          "TokenNotFound")
    /\ token_owner(token_owners, "t1") = NoOwner
    /\ token_metadata(slot_token_metadata, "t1") = NoMetadata
    /\ trace = << >>

====
